---- MODULE Spec2Model ----
(***************************************************************************)
(* Adaptive Mirror (src/main.js, class AdaptiveMirror): the behavioural    *)
(* signal pipeline.  The session lifecycle (begin / pause / resume /       *)
(* complete / abort / destroy), the metric recorders, the idle detector    *)
(* and the classifier are modelled as a state machine over the fields of   *)
(* the AdaptiveMirror object.                                               *)
(*                                                                         *)
(* Conventions                                                             *)
(*  - Time is in milliseconds, as returned by performance.now().           *)
(*  - null is the integer Null (-1); JavaScript truthiness of a timestamp  *)
(*    (neither null nor 0) is Truthy.                                      *)
(*  - Floating point values are exact rationals [n, d] (d > 0, reduced);   *)
(*    d = 0 stands for the non-finite values: NaN, +Infinity, -Infinity.   *)
(*  - Every method of the class is an operator from the object (a record,  *)
(*    App) to the object after the call; an action commits the result of   *)
(*    one whole handler.                                                   *)
(*  - A setInterval / setTimeout callback runs once its time has come and *)
(*    before the clock moves again; the clock moves by TickMs or by half   *)
(*    the observation window, so a callback can run late (a busy or        *)
(*    throttled event loop) but never early.                               *)
(*  - \E a \in {expr} binds the result of one handler run to a.            *)
(*  - The variables marked "observation" record what happened (calls      *)
(*    made, time spent visible, notifications seen); no handler reads them.*)
(***************************************************************************)
EXTENDS Integers, Sequences, FiniteSets, TLC

(***************************************************************************)
(* Program constants                                                       *)
(***************************************************************************)
Null == -1
\* NaN as the result of Math.round, Math.min and Math.max
NaN == -2
Duration == 30000
InitialRemaining == 30
TickMs == 100
IdleMs == 100
ResultDelay == 2500
MoveThrottle == 16
ScrollThrottle == 100
WheelThrottle == 50
FrameMs == 16
JitterDist == 5
JitterMs == 50
IdleOpenMs == 400
IdleCommitMs == 500
IdleCloseMs == 100

(***************************************************************************)
(* Bounds of the model                                                     *)
(***************************************************************************)
MaxNow == 32600
MaxFine == 1
MaxEvents == 5
MaxInputs == 1

(***************************************************************************)
(* Exact rational arithmetic (the code's doubles)                          *)
(***************************************************************************)
Abs(x) == IF x < 0 THEN -x ELSE x
Max(x, y) == IF x >= y THEN x ELSE y
Min(x, y) == IF x <= y THEN x ELSE y

RECURSIVE GCD(_, _)
GCD(x, y) == IF y = 0 THEN x ELSE GCD(y, x % y)

Rat(n, d) ==
  LET s == IF d < 0 THEN -1 ELSE 1
      g == GCD(Abs(n), Abs(d))
  IN  [n |-> (s * n) \div g, d |-> (s * d) \div g]

RInt(i) == [n |-> i, d |-> 1]
RZero == RInt(0)
\* NaN, Infinity and -Infinity as numbers
RNaN == [n |-> 0, d |-> 0]
RInf == [n |-> 1, d |-> 0]
RNegInf == [n |-> -1, d |-> 0]
\* the sum over the least common denominator
RAdd(p, q) ==
  LET g == GCD(p.d, q.d)
  IN  Rat(p.n * (q.d \div g) + q.n * (p.d \div g), (p.d \div g) * q.d)
RMul(p, q) == Rat(p.n * q.n, p.d * q.d)
RDiv(p, q) == Rat(p.n * q.d, p.d * q.n)
RLt(p, q) == p.n * q.d < q.n * p.d
RGt(p, q) == RLt(q, p)
RMin(p, q) == IF RLt(q, p) THEN q ELSE p
RMax(p, q) == IF RLt(p, q) THEN q ELSE p

(***************************************************************************)
(* Double precision, for the one place where the last bit decides.         *)
(* A positive double is [m, e], standing for m * 2^e with                  *)
(* 2^52 <= m < 2^53; m is written in three limbs <<l0, l1, l2>> of         *)
(* LimbBits bits, least significant first, since it exceeds 32 bits.       *)
(* Every operation computes the exact result and rounds it to the nearest  *)
(* double, ties to even, as IEEE 754 prescribes.                           *)
(***************************************************************************)
LimbBits == 21
LimbBase == 2^LimbBits
\* the limb l2 of 2^52 and of 2^53
Top52 == 2^(52 - 2 * LimbBits)
Top53 == 2 * Top52
\* The one member of a singleton: {F(v) : v \in {e}} computes e once and
\* hands F its value
Only(S) == CHOOSE v \in S : TRUE
LOne == <<1, 0, 0>>
LZero == <<0, 0, 0>>
LInt(n) == <<n % LimbBase, n \div LimbBase, 0>>
LToInt(x) == x[1] + x[2] * LimbBase
LCarry(a, b, c) == <<a % LimbBase, b % LimbBase, c + b \div LimbBase>>
LAdd(x, y) ==
  Only({LCarry(a, x[2] + y[2] + a \div LimbBase, x[3] + y[3]) : a \in {x[1] + y[1]}})
\* x - y for x >= y
LSub(x, y) ==
  Only({LCarry(a, x[2] - y[2] + a \div LimbBase, x[3] - y[3]) : a \in {x[1] - y[1]}})
LMul(x, k) ==
  Only({LCarry(a, x[2] * k + a \div LimbBase, x[3] * k) : a \in {x[1] * k}})
LDbl(x) == LMul(x, 2)
\* x shifted right by n <= LimbBits bits
LShrBits(x, n) ==
  <<x[1] \div 2^n + (x[2] % 2^n) * 2^(LimbBits - n),
    x[2] \div 2^n + (x[3] % 2^n) * 2^(LimbBits - n),
    x[3] \div 2^n>>
LHalf(x) == LShrBits(x, 1)
\* x shifted right by n bits, a limb at a time where one fits
RECURSIVE LShr(_, _)
LShr(x, n) ==
  IF n <= LimbBits THEN LShrBits(x, n)
  ELSE Only({LShr(t[1], t[2]) : t \in {<<<<x[2], x[3], 0>>, n - LimbBits>>}})
LGeq(x, y) ==
  \/ x[3] > y[3]
  \/ x[3] = y[3] /\ (x[2] > y[2] \/ (x[2] = y[2] /\ x[1] >= y[1]))
LOdd(x) == x[1] % 2 = 1
\* x shifted left by n < 10 bits
LShl(x, n) == LMul(x, 2^n)

\* s * 2^e with s brought up to 2^52 <= s, for an integer 0 < s < 2^53
\* by a limb, by five bits or by one, whichever fits
RECURSIVE Widen(_, _)
Widen(s, e) ==
  IF s[3] >= Top52 THEN [m |-> s, e |-> e, guard |-> FALSE, sticky |-> FALSE]
  ELSE Only({Widen(t[1], t[2]) :
               t \in {IF s[3] = 0 /\ s[2] < Top52 THEN <<<<0, s[1], s[2]>>, e - LimbBits>>
                      ELSE IF s[3] < Top52 \div 2^5 THEN <<LShl(s, 5), e - 5>>
                      ELSE <<LDbl(s), e - 1>>}})
\* s * 2^e with s brought down to s < 2^53: guard is the bit shifted out
\* last and sticky says whether any bit before it was set
RECURSIVE Narrow(_, _, _, _)
Narrow(s, e, guard, sticky) ==
  IF s[3] < Top53 THEN [m |-> s, e |-> e, guard |-> guard, sticky |-> sticky]
  ELSE Only({Narrow(t[1], t[2], t[3], t[4]) :
               t \in {<<LHalf(s), e + 1, LOdd(s), sticky \/ guard>>}})
\* up * 2^e for up <= 2^53
Renormal(up, e) ==
  IF up[3] >= Top53 THEN [m |-> LHalf(up), e |-> e + 1] ELSE [m |-> up, e |-> e]
\* To nearest, ties to even
Nearest(x) ==
  IF x.guard /\ (x.sticky \/ LOdd(x.m)) THEN Renormal(LAdd(x.m, LOne), x.e)
  ELSE [m |-> x.m, e |-> x.e]
\* The double nearest to s * 2^e, for an integer s > 0 with the guard and
\* sticky bits of what was shifted out of it already
FRound(s, e, guard, sticky) ==
  Only({Nearest(x) : x \in {IF s[3] >= Top53 THEN Narrow(s, e, guard, sticky)
                            ELSE Widen(s, e)}})

\* The double of an integer n > 0
ToDouble(n) == FRound(LInt(n), 0, FALSE, FALSE)

\* One more bit of the quotient q by d, r2 being twice the rest
DivBit(q, r2, d) ==
  IF LGeq(r2, d) THEN <<LAdd(LDbl(q), LOne), LSub(r2, d)>> ELSE <<LDbl(q), r2>>
\* k more bits: qr is <<quotient, rest>>
RECURSIVE DivRun(_, _, _)
DivRun(qr, d, k) ==
  IF k = 0 THEN qr
  ELSE Only({DivRun(t[1], d, t[2]) :
               t \in {<<DivBit(qr[1], LDbl(qr[2]), d), k - 1>>}})
\* in runs of six
RECURSIVE DivBits(_, _, _)
DivBits(qr, d, k) ==
  IF k <= 6 THEN DivRun(qr, d, k)
  ELSE Only({DivBits(t[1], d, t[2]) : t \in {<<DivRun(qr, d, 6), k - 6>>}})

\* The quotient qr = <<quotient, rest>> at exponent e, rounded
FQuot(qr, e) == Only({FRound(v[1], e, FALSE, v[2] # LZero) : v \in {qr}})
\* a / b: 54 bits of the quotient of the mantissas, then rounded
FDiv(a, b) ==
  Only({FQuot(DivBits(t[2], b.m, t[1]), a.e - b.e - t[1]) :
          t \in {IF LGeq(a.m, b.m) THEN <<53, <<LOne, LSub(a.m, b.m)>>>>
                 ELSE <<54, <<LZero, a.m>>>>}})

\* a + b, for exponents less than 10 apart
FAdd(a, b) ==
  IF a.e >= b.e THEN FRound(LAdd(LShl(a.m, a.e - b.e), b.m), b.e, FALSE, FALSE)
  ELSE FRound(LAdd(LShl(b.m, b.e - a.e), a.m), a.e, FALSE, FALSE)

\* a * k for an integer 0 < k < 2^10
FMul(a, k) == FRound(LMul(a.m, k), a.e, FALSE, FALSE)

\* Math.round(a) for a double below 2^31: the integer part of m * 2^e and
\* one more if the first bit after the point is set
FRoundInt(a) ==
  IF a.e >= 0 THEN LToInt(LShl(a.m, a.e))
  ELSE IF -a.e > 53 THEN 0
  ELSE (LToInt(LShr(a.m, -a.e - 1)) + 1) \div 2

\* Math.sqrt on a non-negative integer that is a perfect square
RECURSIVE Root(_, _, _)
Root(n, lo, hi) ==
  IF lo = hi THEN lo
  ELSE LET mid == (lo + hi + 1) \div 2
       IN  IF mid * mid <= n THEN Root(n, mid, hi) ELSE Root(n, lo, mid - 1)
ISqrt(n) == Root(n, 0, Min(n, 46340))
\* Math.sqrt on a rational whose reduced numerator and denominator are squares
RSqrt(p) == [n |-> ISqrt(p.n), d |-> ISqrt(p.d)]
\* Math.round: the nearest integer, halves towards +infinity
RRound(p) == (2 * p.n + p.d) \div (2 * p.d)
\* Math.ceil(x / d) for integers x and d > 0
Ceil(x, d) == -((-x) \div d)

\* JavaScript truthiness of a timestamp: neither null nor 0
Truthy(v) == v # Null /\ v # 0

(***************************************************************************)
(* State                                                                   *)
(***************************************************************************)
VARIABLES
  now,            \* performance.now()
  docHidden,      \* document.hidden
  isObserving,    \* this.state.isObserving
  startTime,      \* this.state.startTime
  timeRemaining,  \* this.state.timeRemaining
  hiddenTime,     \* this.state.hiddenTime
  hidden,         \* this.state.hidden
  metrics,        \* this.state.metrics
  personality,    \* this.state.personality ("null" before a result)
  scores,         \* this.state.scores (the empty function for {})
  themeApplied,   \* this.state.themeApplied
  isDestroyed,    \* this.isDestroyed
  timers,         \* this.timers: due time of the live interval, or Null
  pending,        \* pending setTimeout callbacks, [kind, due]
  timeouts,       \* this.timeouts: the handles of the tracked timeouts
  inThrottle,     \* the inThrottle flag of each throttle() wrapper
  lastMouse,      \* this.lastMouse
  idleStart,      \* this.idleStart
  stored,         \* localStorage['adaptiveMirror_result_v2'] (NoStored if unset)
  probe,          \* observation of the run: calls made in the current session
  events,         \* observation: number of events the page has delivered
  inputs,         \* observation: number of input events among them
  fine,           \* observation: number of TickMs-sized clock advances
  visibleMs,      \* observation: ms the session spent Observing and not Paused
  pageMs,         \* observation: ms the page was visible since the session began
  sinceUpdate,    \* observation: unpaused ms since update() last passed its guard
  lastNote,       \* observation: last notification handled in this session
  pauseStart,     \* observation: startTime and clock at the pause of this session
                  \* that followed no other pause, and its length h once resumed
  aborted,        \* observation: "fresh"/"stale" once reset() hit a running session
  quiet,          \* observation: the time between the last two stamps of
                  \* lastActivityTime in this session, and the longest such
  twin,           \* observation: the same session with hidden intervals of
                  \* length 0 (NoTwin until a handler is run on both)
  arg,            \* the argument of a method called on its own
  ret             \* what the method returned for it (Null before the call)

progVars == <<isObserving, startTime, timeRemaining, hiddenTime, hidden, metrics,
              personality, scores, themeApplied, isDestroyed, timers, pending,
              timeouts,
              inThrottle, lastMouse, idleStart, stored>>
obsVars == <<probe, events, inputs, fine, visibleMs, pageMs,
             sinceUpdate, lastNote, pauseStart, aborted, quiet, twin>>
callVars == <<arg, ret>>
vars == <<now, docHidden, progVars, obsVars, callVars>>

Archetypes == <<"Impulsive", "Analytical", "Perfectionist", "Observer", "Restless">>
EmptyScores == [k \in {} |-> 0]
FallbackScores == [focus |-> 50, hesitation |-> 50, controlBias |-> 50, energy |-> 50]

\* The metrics object of the constructor and of resetMetrics, stamped at t
ZeroMetrics(t, first) ==
  [mouseDistance |-> 0, velocitySum |-> RZero, velocityCount |-> 0,
   maxVelocity |-> RZero, jitterCount |-> 0, scrollCount |-> 0, clickCount |-> 0,
   keystrokes |-> 0, backspaces |-> 0, idleTime |-> 0, lastActivityTime |-> t,
   directionChanges |-> 0, maxScrollVelocity |-> 0, firstActivityTime |-> first]

\* no item under the storage key
NoStored == [personality |-> "unset", scores |-> EmptyScores]

ZeroMouse == [x |-> 0, y |-> 0, time |-> 0, vx |-> RZero, vy |-> RZero]

\* The AdaptiveMirror object as one record
App ==
  [isObserving |-> isObserving, startTime |-> startTime, duration |-> Duration,
   timeRemaining |-> timeRemaining, hiddenTime |-> hiddenTime, hidden |-> hidden,
   metrics |-> metrics, personality |-> personality, scores |-> scores,
   themeApplied |-> themeApplied, isDestroyed |-> isDestroyed, timers |-> timers,
   pending |-> pending, timeouts |-> timeouts, inThrottle |-> inThrottle,
   lastMouse |-> lastMouse,
   idleStart |-> idleStart, stored |-> stored, probe |-> probe,
   exc |-> FALSE, updated |-> FALSE]

Commit(a) ==
  /\ isObserving' = a.isObserving
  /\ startTime' = a.startTime
  /\ timeRemaining' = a.timeRemaining
  /\ hiddenTime' = a.hiddenTime
  /\ hidden' = a.hidden
  /\ metrics' = a.metrics
  /\ personality' = a.personality
  /\ scores' = a.scores
  /\ themeApplied' = a.themeApplied
  /\ isDestroyed' = a.isDestroyed
  /\ timers' = a.timers
  /\ pending' = a.pending
  /\ timeouts' = a.timeouts
  /\ inThrottle' = a.inThrottle
  /\ lastMouse' = a.lastMouse
  /\ idleStart' = a.idleStart
  /\ stored' = a.stored
  /\ probe' = a.probe

(***************************************************************************)
(* Classifier: calculateResults and normalizeScore                         *)
(***************************************************************************)
\* (m.lastActivityTime || performance.now()) - (m.firstActivityTime || startTime),
\* in seconds, then Math.max(1, Math.min(30, actualDuration || 30))
durationSec(m, start, t) ==
  LET last == IF Truthy(m.lastActivityTime) THEN m.lastActivityTime ELSE t
      first == IF Truthy(m.firstActivityTime) THEN m.firstActivityTime
               ELSE IF start = Null THEN 0 ELSE start
      actualDuration == Rat(last - first, 1000)
      orThirty == IF actualDuration.n = 0 THEN RInt(30) ELSE actualDuration
  IN  RMax(RInt(1), RMin(RInt(30), orThirty))

\* Variant: the idle gap of a session without clicks is the whole idle time
Rates_gapPerSession(m, start, t) ==
  LET dur == durationSec(m, start, t)
  IN  [avgVelocity |-> IF m.velocityCount > 0
                       THEN RDiv(m.velocitySum, RInt(m.velocityCount)) ELSE RZero,
       clickRate |-> RDiv(RInt(m.clickCount), dur),
       scrollRate |-> RDiv(RInt(m.scrollCount), dur),
       activityDensity |-> RDiv(RInt(m.clickCount + m.scrollCount + m.keystrokes), dur),
       deletionRate |-> IF m.keystrokes > 0
                        THEN Rat(m.backspaces, m.keystrokes) ELSE RZero,
       avgIdleGap |-> Rat(m.idleTime, Max(1, m.clickCount))]

\* The derived rates of calculateResults
Rates(m, start, t) ==
  LET dur == durationSec(m, start, t)
  IN  [avgVelocity |-> IF m.velocityCount > 0
                       THEN RDiv(m.velocitySum, RInt(m.velocityCount)) ELSE RZero,
       clickRate |-> RDiv(RInt(m.clickCount), dur),
       scrollRate |-> RDiv(RInt(m.scrollCount), dur),
       activityDensity |-> RDiv(RInt(m.clickCount + m.scrollCount + m.keystrokes), dur),
       deletionRate |-> IF m.keystrokes > 0
                        THEN Rat(m.backspaces, m.keystrokes) ELSE RZero,
       avgIdleGap |-> IF m.clickCount > 0 THEN Rat(m.idleTime, m.clickCount) ELSE RZero]

Pts(cond, points) == IF cond THEN points ELSE 0

\* Variant: the second rule of Observer asks for no keystroke and no scroll
ArchetypeScores_strictObserver(m, r) ==
  [Impulsive |->
     Pts(RGt(r.avgVelocity, Rat(12, 10)) \/ RGt(r.clickRate, Rat(4, 10)), 20)
     + Pts(RGt(m.maxVelocity, RInt(3)), 15)
     + Pts(m.jitterCount > 40, 15),
   Analytical |->
     Pts(RLt(r.avgVelocity, Rat(5, 10)) /\ RGt(r.avgIdleGap, RInt(2000)), 25)
     + Pts(m.idleTime > 10000, 15)
     + Pts(m.keystrokes > 50 /\ RLt(r.deletionRate, Rat(1, 10)), 10),
   Perfectionist |->
     Pts(RGt(r.deletionRate, Rat(15, 100)), 25)
     + Pts(m.backspaces > 3, 15)
     + Pts(RLt(r.avgVelocity, Rat(8, 10)) /\ m.jitterCount < 20, 10),
   Observer |->
     Pts(m.mouseDistance < 600 /\ m.clickCount < 3, 30)
     + Pts(m.keystrokes < 1 /\ m.scrollCount < 1, 20),
   Restless |->
     Pts(RGt(r.activityDensity, Rat(8, 10)), 20)
     + Pts(m.directionChanges > 30, 15)
     + Pts(RGt(r.scrollRate, Rat(5, 10)), 15)]

\* Variant: the rules of Impulsive chained, so that only the first one that
\* holds scores
ArchetypeScores_chained(m, r) ==
  [Impulsive |->
     IF RGt(r.avgVelocity, Rat(12, 10)) \/ RGt(r.clickRate, Rat(4, 10)) THEN 20
     ELSE IF RGt(m.maxVelocity, RInt(3)) THEN 15
     ELSE Pts(m.jitterCount > 40, 15),
   Analytical |->
     Pts(RLt(r.avgVelocity, Rat(5, 10)) /\ RGt(r.avgIdleGap, RInt(2000)), 25)
     + Pts(m.idleTime > 10000, 15)
     + Pts(m.keystrokes > 50 /\ RLt(r.deletionRate, Rat(1, 10)), 10),
   Perfectionist |->
     Pts(RGt(r.deletionRate, Rat(15, 100)), 25)
     + Pts(m.backspaces > 3, 15)
     + Pts(RLt(r.avgVelocity, Rat(8, 10)) /\ m.jitterCount < 20, 10),
   Observer |->
     Pts(m.mouseDistance < 600 /\ m.clickCount < 3, 30)
     + Pts(m.keystrokes < 5 /\ m.scrollCount < 5, 20),
   Restless |->
     Pts(RGt(r.activityDensity, Rat(8, 10)), 20)
     + Pts(m.directionChanges > 30, 15)
     + Pts(RGt(r.scrollRate, Rat(5, 10)), 15)]

\* The rule table: the score of each archetype
ArchetypeScores(m, r) ==
  [Impulsive |->
     Pts(RGt(r.avgVelocity, Rat(12, 10)) \/ RGt(r.clickRate, Rat(4, 10)), 20)
     + Pts(RGt(m.maxVelocity, RInt(3)), 15)
     + Pts(m.jitterCount > 40, 15),
   Analytical |->
     Pts(RLt(r.avgVelocity, Rat(5, 10)) /\ RGt(r.avgIdleGap, RInt(2000)), 25)
     + Pts(m.idleTime > 10000, 15)
     + Pts(m.keystrokes > 50 /\ RLt(r.deletionRate, Rat(1, 10)), 10),
   Perfectionist |->
     Pts(RGt(r.deletionRate, Rat(15, 100)), 25)
     + Pts(m.backspaces > 3, 15)
     + Pts(RLt(r.avgVelocity, Rat(8, 10)) /\ m.jitterCount < 20, 10),
   Observer |->
     Pts(m.mouseDistance < 600 /\ m.clickCount < 3, 30)
     + Pts(m.keystrokes < 5 /\ m.scrollCount < 5, 20),
   Restless |->
     Pts(RGt(r.activityDensity, Rat(8, 10)), 20)
     + Pts(m.directionChanges > 30, 15)
     + Pts(RGt(r.scrollRate, Rat(5, 10)), 15)]

\* Variant: a sort that puts the later of two equal scores first
RECURSIVE SortedEntries_laterFirst(_, _)
SortedEntries_laterFirst(sc, left) ==
  IF left = {} THEN <<>>
  ELSE LET top == CHOOSE i \in left :
                    \A j \in left :
                      \/ sc[Archetypes[i]] > sc[Archetypes[j]]
                      \/ sc[Archetypes[i]] = sc[Archetypes[j]] /\ i >= j
       IN  <<top>> \o SortedEntries_laterFirst(sc, left \ {top})

\* Object.entries(scores).sort((a, b) => b[1] - a[1]): a stable sort by
\* descending score; the result as a sequence of indexes into Archetypes
RECURSIVE SortedEntries(_, _)
SortedEntries(sc, left) ==
  IF left = {} THEN <<>>
  ELSE LET top == CHOOSE i \in left :
                    \A j \in left :
                      \/ sc[Archetypes[i]] > sc[Archetypes[j]]
                      \/ sc[Archetypes[i]] = sc[Archetypes[j]] /\ i <= j
       IN  <<top>> \o SortedEntries(sc, left \ {top})

\* Variant: a fallback chain that asks for clicks before backspaces
Dominant_clicksFirst(m, r, sc) ==
  LET entries == SortedEntries(sc, 1..Len(Archetypes))
      e0 == Archetypes[entries[1]]
      e1 == Archetypes[entries[2]]
  IN  IF sc[e0] > 0
      THEN IF sc[e0] = sc[e1]
           THEN IF e1 = "Impulsive" /\ RGt(r.avgVelocity, RInt(1)) THEN "Impulsive"
                ELSE IF e1 = "Analytical" /\ RGt(r.avgIdleGap, RInt(2000))
                     THEN "Analytical"
                     ELSE e0
           ELSE e0
      ELSE IF m.mouseDistance > 2000 THEN "Restless"
           ELSE IF m.clickCount > 5 THEN "Impulsive"
           ELSE IF m.backspaces > 0 THEN "Perfectionist"
           ELSE "Observer"

\* Variant: the Analytical tie-breaker applied without looking for a tie
Dominant_untiedBreak(m, r, sc) ==
  LET entries == SortedEntries(sc, 1..Len(Archetypes))
      e0 == Archetypes[entries[1]]
      e1 == Archetypes[entries[2]]
  IN  IF sc[e0] > 0
      THEN IF e1 = "Impulsive" /\ RGt(r.avgVelocity, RInt(1)) THEN "Impulsive"
           ELSE IF e1 = "Analytical" /\ RGt(r.avgIdleGap, RInt(2000))
                THEN "Analytical"
                ELSE e0
      ELSE IF m.mouseDistance > 2000 THEN "Restless"
           ELSE IF m.backspaces > 0 THEN "Perfectionist"
           ELSE IF m.clickCount > 5 THEN "Impulsive"
           ELSE "Observer"

\* The dominant archetype: top score, tie-breaker, zero-score fallback
Dominant(m, r, sc) ==
  LET entries == SortedEntries(sc, 1..Len(Archetypes))
      e0 == Archetypes[entries[1]]
      e1 == Archetypes[entries[2]]
  IN  IF sc[e0] > 0
      THEN IF sc[e0] = sc[e1]
           THEN IF e1 = "Impulsive" /\ RGt(r.avgVelocity, RInt(1)) THEN "Impulsive"
                ELSE IF e1 = "Analytical" /\ RGt(r.avgIdleGap, RInt(2000))
                     THEN "Analytical"
                     ELSE e0
           ELSE e0
      ELSE IF m.mouseDistance > 2000 THEN "Restless"
           ELSE IF m.backspaces > 0 THEN "Perfectionist"
           ELSE IF m.clickCount > 5 THEN "Impulsive"
           ELSE "Observer"

\* Variant: rounding without the clamp to [5, 95]
normalizeScore_unclamped(val) == RRound(val)

\* normalizeScore(val): Math.max(5, Math.min(95, Math.round(val))).
\* Math.round, Math.min and Math.max return NaN for NaN; Math.round returns
\* an infinity unchanged.
normalizeScore(val) ==
  IF val.d = 0
  THEN IF val.n = 0 THEN NaN ELSE IF val.n > 0 THEN 95 ELSE 5
  ELSE Max(5, Min(95, RRound(val)))

\* Variant: a safety net that looks for the infinities only
safeNum_infinitiesOnly(val) == IF val.d = 0 /\ val.n # 0 THEN RZero ELSE val

\* safeNum(val): (isFinite(val) && !isNaN(val)) ? val : 0
safeNum(val) == IF val.d = 0 THEN RZero ELSE val

\* Variant: the share of clicks cut to an integer instead of rounded
roundControl_floor(r, dur) ==
  LET exact == RMul(RDiv(r.clickRate, RAdd(r.clickRate, r.scrollRate)), RInt(100))
  IN  exact.n \div exact.d

\* Math.round((clickRate / clickScrollSum) * 100) for clickScrollSum > 0, the
\* rates being clickCount / dur and scrollCount / dur.  The divisions, the
\* sum and the product are double operations, each with a relative error of
\* at most 2^-53, and Math.round decides at the halves: unless the exact
\* value is a half, which the counts make at least 1 / (2 * (clickCount +
\* scrollCount)) away from the next one, the rounded double is the rounded
\* exact value.  At a half the doubles are computed.  With no click the
\* quotient is 0 / sum, with no scroll it is x / x, both exact.
roundControl(r, dur) ==
  LET exact == RMul(RDiv(r.clickRate, RAdd(r.clickRate, r.scrollRate)), RInt(100))
      \* the counts, from the exact rates
      clicks == RMul(r.clickRate, dur)
      scrolls == RMul(r.scrollRate, dur)
  IN  IF exact.d # 2 THEN RRound(exact)
      ELSE Only({Only({FRoundInt(FMul(FDiv(rate[1], FAdd(rate[1], rate[2])), 100)) :
                         rate \in {<<FDiv(ToDouble(clicks.n), durationSec_),
                                     FDiv(ToDouble(scrolls.n), durationSec_)>>}}) :
                   durationSec_ \in {FDiv(ToDouble(dur.n), ToDouble(dur.d))}})

\* The four sub-scores; dur is durationSec
SubScores(r, dur) ==
  LET focusScore == safeNum(RAdd(RMul(r.avgVelocity, RInt(20)),
                                 RMul(r.activityDensity, RInt(10))))
      hesitationScore == safeNum(RAdd(RMul(r.deletionRate, RInt(50)),
                                      RDiv(r.avgIdleGap, RInt(100))))
      clickScrollSum == RAdd(r.clickRate, r.scrollRate)
      roundedControl == IF RGt(clickScrollSum, RZero) THEN roundControl(r, dur)
                        ELSE 50
      energyScore == safeNum(RMin(RInt(100), RMul(r.activityDensity, RInt(10))))
  IN  [focus |-> normalizeScore(focusScore),
       hesitation |-> normalizeScore(hesitationScore),
       controlBias |-> Max(0, Min(100, roundedControl)),
       energy |-> normalizeScore(energyScore)]

\* calculateResults().  fault says where an exception is raised inside it:
\* "none", "early" (before personality is assigned, line 809) or "late"
\* (after it, before scores is assigned, line 822); a.exc is the exception
\* on its way to the caller.
calculateResults(a, t, fault) ==
  LET m == a.metrics
      r == Rates(m, a.startTime, t)
      dominant == Dominant(m, r, ArchetypeScores(m, r))
      counted == [a EXCEPT !.probe.calc = @ + 1]
  IN  CASE fault = "early" -> [counted EXCEPT !.exc = TRUE]
        [] fault = "late" -> [counted EXCEPT !.personality = dominant, !.exc = TRUE]
        [] OTHER -> [counted EXCEPT !.personality = dominant, !.scores = SubScores(r, durationSec(m, a.startTime, t))]

(***************************************************************************)
(* Session controller and session clock                                    *)
(***************************************************************************)
\* remaining = Math.max(0, Math.ceil((duration - elapsed) / 1000)) at time t
Remaining(t, start) == Max(0, Ceil(Duration - (t - start), 1000))

stopObservation(a) ==
  [a EXCEPT !.isObserving = FALSE, !.timers = [countdown |-> Null, idle |-> Null]]

\* Variant: a catch block that assigns no fallback
completeObservation_noFallback(a, t, fault) ==
  LET a1 == stopObservation(a)
      a2 == calculateResults([a1 EXCEPT !.probe.complete = @ + 1,
                                        !.probe.threw = (fault # "none")], t, fault)
      a3 == [a2 EXCEPT !.exc = FALSE]
  IN  [a3 EXCEPT !.pending = @ \cup {[kind |-> "result", due |-> t + ResultDelay]},
                !.timeouts = @ \cup {[kind |-> "result", due |-> t + ResultDelay]}]

\* completeObservation(): the try/catch around calculateResults and the
\* delayed result step
completeObservation(a, t, fault) ==
  LET a1 == stopObservation(a)
      a2 == calculateResults([a1 EXCEPT !.probe.complete = @ + 1,
                                        !.probe.threw = (fault # "none")], t, fault)
      a3 == IF a2.exc
            THEN [a2 EXCEPT !.personality = "Observer", !.scores = FallbackScores,
                            !.exc = FALSE]
            ELSE a2
  IN  [a3 EXCEPT !.pending = @ \cup {[kind |-> "result", due |-> t + ResultDelay]},
                !.timeouts = @ \cup {[kind |-> "result", due |-> t + ResultDelay]}]

\* Variant: an update closure that does not look at isObserving
update_unguarded(a, t, fault) ==
  IF a.hidden \/ a.isDestroyed THEN a
  ELSE LET elapsed == t - a.startTime
           remaining == Max(0, Ceil(a.duration - elapsed, 1000))
           a1 == [a EXCEPT !.timeRemaining = remaining, !.updated = TRUE]
       IN  IF elapsed >= a.duration THEN completeObservation(a1, t, fault) ELSE a1

\* Variant: an update closure that does not look at hidden
update_ignoresHidden(a, t, fault) ==
  IF ~a.isObserving \/ a.isDestroyed THEN a
  ELSE LET elapsed == t - a.startTime
           remaining == Max(0, Ceil(a.duration - elapsed, 1000))
           a1 == [a EXCEPT !.timeRemaining = remaining, !.updated = TRUE]
       IN  IF elapsed >= a.duration THEN completeObservation(a1, t, fault) ELSE a1

\* The update closure of startTimer()
update(a, t, fault) ==
  IF ~a.isObserving \/ a.hidden \/ a.isDestroyed THEN a
  ELSE LET elapsed == t - a.startTime
           remaining == Max(0, Ceil(a.duration - elapsed, 1000))
           a1 == [a EXCEPT !.timeRemaining = remaining, !.updated = TRUE]
       IN  IF elapsed >= a.duration THEN completeObservation(a1, t, fault) ELSE a1

\* startTimer(): clearInterval, the immediate update(), then setInterval
startTimer(a, t, fault) ==
  LET a1 == update([a EXCEPT !.timers.countdown = Null], t, fault)
  IN  [a1 EXCEPT !.timers.countdown = t + TickMs]

startIdleTracker(a, t) == [a EXCEPT !.timers.idle = t + IdleMs]

\* Variant: a reset of the metrics that keeps the counters
resetMetrics_keepsCounters(a, t) ==
  [a EXCEPT !.metrics.lastActivityTime = t, !.metrics.firstActivityTime = Null,
            !.lastMouse = ZeroMouse, !.idleStart = Null]

resetMetrics(a, t) ==
  [a EXCEPT !.metrics = ZeroMetrics(t, Null), !.lastMouse = ZeroMouse,
            !.idleStart = Null]

\* Variant: a start that does not look at isObserving
beginObservation_restarts(a, t) ==
  LET a1 == [a EXCEPT !.isObserving = TRUE, !.startTime = t,
                      !.timeRemaining = InitialRemaining,
                      !.metrics.lastActivityTime = t,
                      !.metrics.firstActivityTime = Null]
  IN  startIdleTracker(startTimer(resetMetrics(a1, t), t, "none"), t)

beginObservation(a, t) ==
  IF a.isObserving THEN a
  ELSE LET a1 == [a EXCEPT !.isObserving = TRUE, !.startTime = t,
                           !.timeRemaining = InitialRemaining,
                           !.metrics.lastActivityTime = t,
                           !.metrics.firstActivityTime = Null]
       IN  startIdleTracker(startTimer(resetMetrics(a1, t), t, "none"), t)

\* Variant: a resume that leaves startTime where it was
handleVisibilityChange_noShift(a, t, docHid, fault) ==
  IF ~a.isObserving THEN a
  ELSE IF docHid
       THEN [a EXCEPT !.hidden = TRUE, !.hiddenTime = t,
                      !.timers = [countdown |-> Null, idle |-> Null]]
       ELSE LET a1 == [a EXCEPT !.hidden = FALSE]
            IN  startIdleTracker(startTimer(a1, t, fault), t)

\* handleVisibilityChange() reading document.hidden = docHid
handleVisibilityChange(a, t, docHid, fault) ==
  IF ~a.isObserving THEN a
  ELSE IF docHid
       THEN [a EXCEPT !.hidden = TRUE, !.hiddenTime = t,
                      !.timers = [countdown |-> Null, idle |-> Null]]
       ELSE LET hiddenDuration == t - a.hiddenTime
                a1 == [a EXCEPT !.startTime = @ + hiddenDuration, !.hidden = FALSE]
            IN  IF a1.isObserving
                THEN startIdleTracker(startTimer(a1, t, fault), t)
                ELSE a1

\* Variant: a reset that keeps the last result
reset_keepsResult(a) == [stopObservation(a) EXCEPT !.themeApplied = FALSE]

\* reset(): the abort and restart buttons
reset(a) ==
  [stopObservation(a) EXCEPT !.personality = "null", !.themeApplied = FALSE,
                             !.scores = EmptyScores]

\* handleKeyDown(e): the definition in force (the later one of the class body)
handleKeyDown(a, key) == IF key = "Escape" /\ a.isObserving THEN reset(a) ELSE a

\* destroy(): every tracked timeout and every interval is cleared
destroy(a) ==
  IF a.isDestroyed THEN a
  ELSE [stopObservation([a EXCEPT !.isDestroyed = TRUE]) EXCEPT
          !.pending = {}, !.timeouts = {}]

applyTheme(a) ==
  IF a.personality = "null" \/ a.themeApplied \/ a.isDestroyed THEN a
  ELSE [a EXCEPT !.themeApplied = TRUE]

persistResult(a) ==
  [a EXCEPT !.stored = [personality |-> a.personality, scores |-> a.scores]]

\* The callback of the timeout set by completeObservation()
resultStep(a) ==
  IF ~a.isObserving /\ ~a.isDestroyed THEN persistResult(applyTheme(a)) ELSE a

(***************************************************************************)
(* Idle detector                                                           *)
(***************************************************************************)
\* Variant: every closed idle period is added, however short
checkIdle_anyGap(a, t) ==
  IF ~a.isObserving \/ a.hidden \/ a.isDestroyed THEN a
  ELSE LET timeSinceActivity == t - a.metrics.lastActivityTime
       IN  IF Truthy(a.idleStart) /\ timeSinceActivity < IdleCloseMs
           THEN [a EXCEPT !.metrics.idleTime = @ + (t - a.idleStart),
                          !.idleStart = Null]
           ELSE IF ~Truthy(a.idleStart) /\ timeSinceActivity > IdleOpenMs
                THEN [a EXCEPT !.idleStart = t]
                ELSE a

checkIdle(a, t) ==
  IF ~a.isObserving \/ a.hidden \/ a.isDestroyed THEN a
  ELSE LET timeSinceActivity == t - a.metrics.lastActivityTime
       IN  IF Truthy(a.idleStart) /\ timeSinceActivity < IdleCloseMs
           THEN LET idleDuration == t - a.idleStart
                IN  [a EXCEPT !.metrics.idleTime =
                                 IF idleDuration > IdleCommitMs THEN @ + idleDuration ELSE @,
                              !.idleStart = Null]
           ELSE IF ~Truthy(a.idleStart) /\ timeSinceActivity > IdleOpenMs
                THEN [a EXCEPT !.idleStart = t]
                ELSE a

(***************************************************************************)
(* Metrics accumulator: the recorders                                      *)
(***************************************************************************)
\* Variant: a sample is processed from 16 ms on
handleMouseMove_frameInclusive(a, x, y, t) ==
  IF ~a.isObserving \/ a.hidden \/ a.isDestroyed THEN a
  ELSE
    LET m0 == a.metrics
        lm == a.lastMouse
        m1 == IF ~Truthy(m0.firstActivityTime)
              THEN [m0 EXCEPT !.firstActivityTime = t] ELSE m0
        dt == t - lm.time
        dx == x - lm.x
        dy == y - lm.y
        distance == ISqrt(dx * dx + dy * dy)
        processed == Truthy(lm.time) /\ dt >= FrameMs /\ distance > 0
        vx == Rat(dx, dt)
        vy == Rat(dy, dt)
        velocity == RSqrt(RAdd(RMul(vx, vx), RMul(vy, vy)))
        turned == /\ (lm.vx # RZero \/ lm.vy # RZero)
                  /\ RLt(RAdd(RMul(vx, lm.vx), RMul(vy, lm.vy)), RZero)
                  /\ RGt(velocity, Rat(3, 10))
        m2 == IF processed
              THEN [m1 EXCEPT
                      !.mouseDistance = @ + distance,
                      !.velocitySum = RAdd(@, velocity),
                      !.velocityCount = @ + 1,
                      !.maxVelocity = IF RGt(velocity, @) THEN velocity ELSE @,
                      !.jitterCount = IF distance < JitterDist /\ dt < JitterMs
                                      THEN @ + 1 ELSE @,
                      !.directionChanges = IF turned THEN @ + 1 ELSE @]
              ELSE m1
    IN  [a EXCEPT !.metrics = [m2 EXCEPT !.lastActivityTime = t],
                  !.lastMouse = [x |-> x, y |-> y, time |-> t,
                                 vx |-> IF processed THEN vx ELSE lm.vx,
                                 vy |-> IF processed THEN vy ELSE lm.vy]]

\* Variant: a reversal counts at any speed
handleMouseMove_anyReversal(a, x, y, t) ==
  IF ~a.isObserving \/ a.hidden \/ a.isDestroyed THEN a
  ELSE
    LET m0 == a.metrics
        lm == a.lastMouse
        m1 == IF ~Truthy(m0.firstActivityTime)
              THEN [m0 EXCEPT !.firstActivityTime = t] ELSE m0
        dt == t - lm.time
        dx == x - lm.x
        dy == y - lm.y
        distance == ISqrt(dx * dx + dy * dy)
        processed == Truthy(lm.time) /\ dt > FrameMs /\ distance > 0
        vx == Rat(dx, dt)
        vy == Rat(dy, dt)
        velocity == RSqrt(RAdd(RMul(vx, vx), RMul(vy, vy)))
        turned == /\ (lm.vx # RZero \/ lm.vy # RZero)
                  /\ RLt(RAdd(RMul(vx, lm.vx), RMul(vy, lm.vy)), RZero)
        m2 == IF processed
              THEN [m1 EXCEPT
                      !.mouseDistance = @ + distance,
                      !.velocitySum = RAdd(@, velocity),
                      !.velocityCount = @ + 1,
                      !.maxVelocity = IF RGt(velocity, @) THEN velocity ELSE @,
                      !.jitterCount = IF distance < JitterDist /\ dt < JitterMs
                                      THEN @ + 1 ELSE @,
                      !.directionChanges = IF turned THEN @ + 1 ELSE @]
              ELSE m1
    IN  [a EXCEPT !.metrics = [m2 EXCEPT !.lastActivityTime = t],
                  !.lastMouse = [x |-> x, y |-> y, time |-> t,
                                 vx |-> IF processed THEN vx ELSE lm.vx,
                                 vy |-> IF processed THEN vy ELSE lm.vy]]

\* handleMouseMove(e), the method itself (behind its throttle wrapper)
handleMouseMove(a, x, y, t) ==
  IF ~a.isObserving \/ a.hidden \/ a.isDestroyed THEN a
  ELSE
    LET m0 == a.metrics
        lm == a.lastMouse
        m1 == IF ~Truthy(m0.firstActivityTime)
              THEN [m0 EXCEPT !.firstActivityTime = t] ELSE m0
        dt == t - lm.time
        dx == x - lm.x
        dy == y - lm.y
        distance == ISqrt(dx * dx + dy * dy)
        processed == Truthy(lm.time) /\ dt > FrameMs /\ distance > 0
        vx == Rat(dx, dt)
        vy == Rat(dy, dt)
        velocity == RSqrt(RAdd(RMul(vx, vx), RMul(vy, vy)))
        turned == /\ (lm.vx # RZero \/ lm.vy # RZero)
                  /\ RLt(RAdd(RMul(vx, lm.vx), RMul(vy, lm.vy)), RZero)
                  /\ RGt(velocity, Rat(3, 10))
        m2 == IF processed
              THEN [m1 EXCEPT
                      !.mouseDistance = @ + distance,
                      !.velocitySum = RAdd(@, velocity),
                      !.velocityCount = @ + 1,
                      !.maxVelocity = IF RGt(velocity, @) THEN velocity ELSE @,
                      !.jitterCount = IF distance < JitterDist /\ dt < JitterMs
                                      THEN @ + 1 ELSE @,
                      !.directionChanges = IF turned THEN @ + 1 ELSE @]
              ELSE m1
    IN  [a EXCEPT !.metrics = [m2 EXCEPT !.lastActivityTime = t],
                  !.lastMouse = [x |-> x, y |-> y, time |-> t,
                                 vx |-> IF processed THEN vx ELSE lm.vx,
                                 vy |-> IF processed THEN vy ELSE lm.vy]]

\* The wrapper throttle(fn, limit) builds around fn: a call is dropped while
\* inThrottle is set; the flag is released by a tracked timeout
throttledMouseMove(a, x, y, t) ==
  IF a.inThrottle.move THEN a
  ELSE [handleMouseMove(a, x, y, t) EXCEPT
          !.inThrottle.move = TRUE,
          !.pending = @ \cup {[kind |-> "move", due |-> t + MoveThrottle]},
          !.timeouts = @ \cup {[kind |-> "move", due |-> t + MoveThrottle]}]

\* handleTouch(e): touches[0], if any, goes through this.handleMouseMove
handleTouch(a, hasTouch, x, y, t) ==
  IF ~a.isObserving \/ a.hidden \/ a.isDestroyed THEN a
  ELSE IF ~hasTouch THEN a
  ELSE throttledMouseMove(a, x, y, t)

endTouch(a) ==
  [a EXCEPT !.lastMouse.time = 0, !.lastMouse.vx = RZero, !.lastMouse.vy = RZero]

\* Variant: the last wheel velocity instead of the highest
handleWheel_last(a, deltaY) ==
  IF ~a.isObserving \/ a.hidden \/ a.isDestroyed THEN a
  ELSE LET velocity == [deltaY EXCEPT !.n = Abs(@)]
       IN  IF velocity.d # 0
           THEN [a EXCEPT !.metrics.maxScrollVelocity = velocity.n] ELSE a

\* handleWheel(e); deltaY is a whole number or not finite, and
\* maxScrollVelocity, which only takes finite values, is kept as an integer
handleWheel(a, deltaY) ==
  IF ~a.isObserving \/ a.hidden \/ a.isDestroyed THEN a
  ELSE LET velocity == [deltaY EXCEPT !.n = Abs(@)]
       IN  IF velocity.d # 0 /\ RGt(velocity, RInt(a.metrics.maxScrollVelocity))
           THEN [a EXCEPT !.metrics.maxScrollVelocity = velocity.n] ELSE a

throttledWheel(a, deltaY, t) ==
  IF a.inThrottle.wheel THEN a
  ELSE [handleWheel(a, deltaY) EXCEPT
          !.inThrottle.wheel = TRUE,
          !.pending = @ \cup {[kind |-> "wheel", due |-> t + WheelThrottle]},
          !.timeouts = @ \cup {[kind |-> "wheel", due |-> t + WheelThrottle]}]

handleScroll(a, t) ==
  IF ~a.isObserving \/ a.hidden \/ a.isDestroyed THEN a
  ELSE [a EXCEPT !.metrics.scrollCount = @ + 1, !.metrics.lastActivityTime = t]

throttledScroll(a, t) ==
  IF a.inThrottle.scroll THEN a
  ELSE [handleScroll(a, t) EXCEPT
          !.inThrottle.scroll = TRUE,
          !.pending = @ \cup {[kind |-> "scroll", due |-> t + ScrollThrottle]},
          !.timeouts = @ \cup {[kind |-> "scroll", due |-> t + ScrollThrottle]}]

\* Variant: the sound toggle is not told apart
handleClick_countsToggle(a, onToggle, t) ==
  IF ~a.isObserving \/ a.hidden \/ a.isDestroyed THEN a
  ELSE [a EXCEPT !.metrics.clickCount = @ + 1, !.metrics.lastActivityTime = t]

\* handleClick(e); onToggle: e.target is inside #sound-toggle
handleClick(a, onToggle, t) ==
  IF ~a.isObserving \/ a.hidden \/ a.isDestroyed THEN a
  ELSE IF onToggle THEN a
  ELSE [a EXCEPT !.metrics.clickCount = @ + 1, !.metrics.lastActivityTime = t]

\* The keyup listener bindEvents() puts on the typing field
keyUp(a, t) ==
  IF a.isObserving THEN [a EXCEPT !.metrics.lastActivityTime = t] ELSE a

handleBeforeInput(a, t) ==
  IF ~a.isObserving THEN a ELSE [a EXCEPT !.metrics.lastActivityTime = t]

\* The callback of a throttle wrapper's timeout, whose handle is h
releaseThrottle(a, h) ==
  [a EXCEPT !.inThrottle[h.kind] = FALSE, !.timeouts = @ \ {h}]

(***************************************************************************)
(* Inputs of the environment                                               *)
(***************************************************************************)
\* Pointer positions; every distance between two of them is an integer
Points == {<<0, 0>>, <<3, 0>>, <<3, 4>>}
DeltaYs == {RInt(-120), RInt(53), RInf}
Keys == {"Escape", "Backspace", "a"}
Faults == {"none", "early", "late"}
\* Clock advances: one timer period, or half of the observation window
Deltas == {TickMs, Duration \div 2}

ZeroProbe ==
  [complete |-> 0, calc |-> 0, threw |-> FALSE, dirty |-> FALSE, again |-> FALSE]
\* no method has been called on its own
NoCall == [raw |-> Null, safe |-> Null]
NoPause == [start |-> Null, at |-> Null, h |-> Null]
NoGap == [last |-> 0, longest |-> 0]
\* no handler has been run on the twin session yet: it is as the session is
NoTwin == [startTime |-> Null, hiddenTime |-> 0, metrics |-> ZeroMetrics(0, Null),
           idleStart |-> Null, lag |-> Null]

(***************************************************************************)
(* Initial state: the object after the constructor                         *)
(***************************************************************************)
\* The fields of the object, the page and the observations
Constructed ==
  /\ now = 0
  /\ docHidden = FALSE
  /\ isObserving = FALSE
  /\ startTime = Null
  /\ timeRemaining = InitialRemaining
  /\ hiddenTime = 0
  /\ hidden = FALSE
  /\ metrics = ZeroMetrics(0, Null)
  /\ personality = "null"
  /\ scores = EmptyScores
  /\ themeApplied = FALSE
  /\ isDestroyed = FALSE
  /\ timers = [countdown |-> Null, idle |-> Null]
  /\ pending = {}
  /\ timeouts = {}
  /\ inThrottle = [move |-> FALSE, scroll |-> FALSE, wheel |-> FALSE]
  /\ lastMouse = ZeroMouse
  /\ idleStart = Null
  /\ stored = NoStored
  /\ probe = ZeroProbe
  /\ events = 0
  /\ inputs = 0
  /\ fine = 0
  /\ visibleMs = 0
  /\ pageMs = 0
  /\ sinceUpdate = 0
  /\ lastNote = "none"
  /\ pauseStart = NoPause
  /\ aborted = "no"
  /\ quiet = NoGap
  /\ twin = NoTwin

Init ==
  /\ Constructed
  /\ arg = RZero
  /\ ret = NoCall

(***************************************************************************)
(* Actions: one per handler                                                *)
(***************************************************************************)
\* What every handler run has in common: the clock stands still, the object
\* becomes a, and the run is observed
Handler(a) ==
  /\ now' = now
  /\ Commit(a)
  /\ UNCHANGED <<fine, callVars>>

\* The observations of a session, which end with it.  obs is their value
\* while the session runs.
SessionObs(a, obs) ==
  /\ visibleMs' = IF a.isObserving THEN obs.visibleMs ELSE 0
  /\ pageMs' = IF a.isObserving THEN obs.pageMs ELSE 0
  /\ sinceUpdate' = IF ~a.isObserving \/ a.updated THEN 0 ELSE obs.sinceUpdate
  /\ lastNote' = IF a.isObserving THEN obs.lastNote ELSE "none"
  /\ pauseStart' = IF a.isObserving THEN obs.pauseStart ELSE NoPause
  /\ quiet' = IF a.isObserving THEN obs.quiet ELSE NoGap
  /\ twin' = IF a.isObserving THEN obs.twin ELSE NoTwin

SameObs ==
  [visibleMs |-> visibleMs, pageMs |-> pageMs, sinceUpdate |-> sinceUpdate,
   lastNote |-> lastNote, pauseStart |-> pauseStart, quiet |-> quiet,
   twin |-> twin]
FreshObs ==
  [visibleMs |-> 0, pageMs |-> 0, sinceUpdate |-> 0, lastNote |-> "none",
   pauseStart |-> NoPause, quiet |-> NoGap, twin |-> NoTwin]

\* destroy() removes the document listeners registered by reference
\* (mousemove, scroll, wheel, visibilitychange, keydown); the listeners
\* registered as closures (click, touch, the buttons, the typing field) stay
Listening == ~isDestroyed

\* aborted after a handler that is not an abort
AbortedAfter(a) == IF a.probe.complete > probe.complete THEN "no" ELSE aborted

\* The page delivers an event (bounded in number)
Event == events < MaxEvents /\ events' = events + 1

\* The handler of an input event runs and leaves the object as result
Deliver(result) ==
  /\ \E a \in {result} :
       /\ Handler(a)
       /\ SessionObs(a, [SameObs EXCEPT !.quiet =
                           IF a.metrics.lastActivityTime # metrics.lastActivityTime
                           THEN [last |-> now - metrics.lastActivityTime,
                                 longest |-> Max(@.longest, now - metrics.lastActivityTime)]
                           ELSE @])
  /\ UNCHANGED docHidden

\* An input event of the page
Input(result) ==
  /\ Event
  /\ inputs < MaxInputs
  /\ inputs' = inputs + 1
  /\ Deliver(result)

Begin ==
  /\ Event
  /\ LET fresh == ~isObserving
         dirty == \/ metrics # ZeroMetrics(metrics.lastActivityTime, Null)
                  \/ lastMouse # ZeroMouse
                  \/ idleStart # Null
         app == [App EXCEPT !.probe = IF fresh THEN [ZeroProbe EXCEPT !.dirty = dirty]
                                      ELSE [@ EXCEPT !.again = TRUE]]
     IN  /\ \E a \in {beginObservation(app, now)} :
              /\ Handler(a)
              /\ SessionObs(a, IF fresh THEN FreshObs ELSE SameObs)
         /\ aborted' = IF fresh /\ aborted = "fresh" THEN "stale" ELSE aborted
  /\ UNCHANGED <<docHidden, inputs>>

Reset ==
  /\ Event
  /\ \E a \in {reset(App)} : Handler(a) /\ SessionObs(a, SameObs)
  /\ aborted' = IF isObserving THEN "fresh" ELSE aborted
  /\ UNCHANGED <<docHidden, inputs>>

Destroy ==
  /\ Event
  /\ \E a \in {destroy(App)} : Handler(a) /\ SessionObs(a, SameObs)
  /\ UNCHANGED <<docHidden, inputs, aborted>>

VisibilityChange(h, fault) ==
  /\ Event
  /\ docHidden' = h
  /\ LET note == IF ~isObserving \/ ~Listening THEN lastNote
                 ELSE IF h THEN "hidden" ELSE "visible"
         pause == IF ~isObserving \/ ~Listening THEN pauseStart
                  ELSE IF h
                  THEN IF lastNote = "hidden" THEN NoPause
                       ELSE [start |-> startTime, at |-> now, h |-> Null]
                  ELSE IF pauseStart # NoPause /\ pauseStart.h = Null
                       THEN [pauseStart EXCEPT !.h = now - pauseStart.at]
                       ELSE NoPause
     IN  \E a \in {IF Listening THEN handleVisibilityChange(App, now, h, fault)
                     ELSE App} :
           /\ Handler(a)
           /\ SessionObs(a, [SameObs EXCEPT !.lastNote = note, !.pauseStart = pause])
           /\ aborted' = AbortedAfter(a)
  /\ UNCHANGED inputs

\* The countdown interval fires
Tick(fault) ==
  /\ timers.countdown # Null
  /\ now >= timers.countdown
  /\ \E a1 \in {update(App, now, fault)} :
       LET a == IF a1.timers.countdown # Null
                THEN [a1 EXCEPT !.timers.countdown = now + TickMs] ELSE a1
       IN  /\ Handler(a)
           /\ SessionObs(a, SameObs)
           /\ aborted' = AbortedAfter(a)
  /\ UNCHANGED <<docHidden, events, inputs>>

\* The idle interval fires
IdlePoll ==
  /\ timers.idle # Null
  /\ now >= timers.idle
  /\ \E a1 \in {checkIdle(App, now)} :
       LET a == [a1 EXCEPT !.timers.idle = now + IdleMs]
       IN  Handler(a) /\ SessionObs(a, SameObs)
  /\ UNCHANGED <<docHidden, events, inputs, aborted>>

\* A pending timeout fires
TimeoutFire ==
  \E p \in pending :
    /\ now >= p.due
    /\ LET a0 == [App EXCEPT !.pending = @ \ {p}]
       IN  \E a \in {IF p.kind = "result" THEN resultStep(a0)
                       ELSE releaseThrottle(a0, p)} :
             Handler(a) /\ SessionObs(a, SameObs)
    /\ UNCHANGED <<docHidden, events, inputs, aborted>>

MouseMove(x, y) ==
  /\ Input(IF Listening THEN throttledMouseMove(App, x, y, now) ELSE App)
  /\ UNCHANGED aborted

Touch(hasTouch, x, y) ==
  Input(handleTouch(App, hasTouch, x, y, now)) /\ UNCHANGED aborted

EndTouch == Input(endTouch(App)) /\ UNCHANGED aborted

Wheel(deltaY) ==
  /\ Input(IF Listening THEN throttledWheel(App, deltaY, now) ELSE App)
  /\ UNCHANGED aborted

Scroll ==
  /\ Input(IF Listening THEN throttledScroll(App, now) ELSE App)
  /\ UNCHANGED aborted

Click(onToggle) == Input(handleClick(App, onToggle, now)) /\ UNCHANGED aborted

KeyDown(key) ==
  /\ Input(handleKeyDown(App, key))
  /\ aborted' = IF key = "Escape" /\ isObserving THEN "fresh" ELSE aborted

KeyUp == Input(keyUp(App, now)) /\ UNCHANGED aborted

BeforeInput == Input(handleBeforeInput(App, now)) /\ UNCHANGED aborted

\* A callback whose time has come: it runs before the clock moves on
Due(t) == t # Null /\ t <= now
NothingDue ==
  /\ ~Due(timers.countdown)
  /\ ~Due(timers.idle)
  /\ \A p \in pending : ~Due(p.due)

\* Time passes
Advance(d) ==
  /\ NothingDue
  /\ now + d <= MaxNow
  /\ d = TickMs => fine < MaxFine
  /\ now' = now + d
  /\ fine' = IF d = TickMs THEN fine + 1 ELSE fine
  /\ visibleMs' = IF isObserving /\ ~hidden THEN Min(visibleMs + d, Duration) ELSE visibleMs
  /\ pageMs' = IF isObserving /\ ~docHidden THEN Min(pageMs + d, Duration) ELSE pageMs
  /\ sinceUpdate' = IF isObserving /\ ~hidden THEN Min(sinceUpdate + d, 2 * TickMs)
                    ELSE sinceUpdate
  /\ UNCHANGED <<docHidden, progVars, probe, events, inputs, lastNote,
                 pauseStart, aborted, quiet, twin, callVars>>

\* Time passes until the result timeout of a completed session is due
AwaitResult ==
  \E p \in pending : p.kind = "result" /\ p.due > now /\ Advance(p.due - now)

Next ==
  \/ Begin
  \/ Reset
  \/ Destroy
  \/ \E h \in BOOLEAN, fault \in Faults : VisibilityChange(h, fault)
  \/ \E fault \in Faults : Tick(fault)
  \/ IdlePoll
  \/ TimeoutFire
  \/ \E pt \in Points : MouseMove(pt[1], pt[2])
  \/ \E hasTouch \in BOOLEAN, pt \in Points : Touch(hasTouch, pt[1], pt[2])
  \/ EndTouch
  \/ \E deltaY \in DeltaYs : Wheel(deltaY)
  \/ Scroll
  \/ \E onToggle \in BOOLEAN : Click(onToggle)
  \/ \E key \in Keys : KeyDown(key)
  \/ KeyUp
  \/ BeforeInput
  \/ \E d \in Deltas : Advance(d)
  \/ AwaitResult

Spec == Init /\ [][Next]_vars

(***************************************************************************)
(* Steps and session states the properties speak about                     *)
(***************************************************************************)
TickStep == \E fault \in Faults : Tick(fault)
ResumeStep == \E fault \in Faults : VisibilityChange(FALSE, fault)
InputStep == inputs' = inputs + 1
Paused == isObserving /\ hidden
Completes == probe'.complete = probe.complete + 1
\* everything of the object but the interval handles
sessionState ==
  <<isObserving, startTime, timeRemaining, hiddenTime, hidden, metrics,
    personality, scores, themeApplied, isDestroyed, pending, timeouts, inThrottle,
    lastMouse, idleStart, stored, probe>>

(***************************************************************************)
(* Properties                                                              *)
(***************************************************************************)
\* C1: while no session is Observing, or the session is Paused, no input
\* event (pointer move, touch, scroll, wheel, click, keydown, keyup,
\* beforeinput) changes any field of the metrics, lastActivityTime included.
C1_InputsIgnoredOutsideObserving ==
  [][(InputStep /\ (~isObserving \/ Paused)) => metrics' = metrics]_vars

\* C2: completeObservation and calculateResults run at most once per session,
\* and exactly once when an update observes elapsed >= duration while
\* Observing; a later tick of the same session changes nothing.
C2_CompletesOnce ==
  /\ [](probe.complete <= 1 /\ probe.calc = probe.complete)
  /\ [][(TickStep /\ isObserving /\ ~hidden /\ ~isDestroyed
            /\ now - startTime >= Duration)
          => (probe.complete = 0 /\ Completes /\ probe'.calc = 1 /\ ~isObserving')]_vars
  /\ [][(TickStep /\ probe.complete = 1)
          => (~isObserving /\ UNCHANGED sessionState)]_vars
C2_Witness ==
  /\ probe.complete = 1
  /\ probe.calc = 1
  /\ ~isObserving
  /\ timers.countdown # Null
  /\ now > timers.countdown

\* C3: hidden time never counts: a session completes only once it has spent
\* at least 30000 ms Observing and not Paused.
C3_CompletionNeedsVisibleWindow ==
  [][Completes => visibleMs >= Duration]_vars

\* C4: for one pause followed by one resume h ms later, the resume moves
\* startTime forward by exactly h, and the time remaining right after the
\* resume is the time remaining at the pause.
C4_PauseResumeShift ==
  [][(ResumeStep /\ pauseStart # NoPause /\ pauseStart.h = Null)
       => /\ startTime' = pauseStart.start + (now - pauseStart.at)
          /\ Remaining(now', startTime') = Remaining(pauseStart.at, pauseStart.start)
          /\ timeRemaining' = Remaining(pauseStart.at, pauseStart.start)]_vars
C4_Witness ==
  /\ isObserving
  /\ ~hidden
  /\ pauseStart # NoPause
  /\ pauseStart.h # Null
  /\ pauseStart.h > 0
  /\ startTime = pauseStart.start + pauseStart.h

\* C5: the session clock is idempotent under repeated notifications: a pause
\* notification while Paused and a resume notification after a resume change
\* neither startTime nor the recorded start of the pause.
RepeatedNote ==
  \E h \in BOOLEAN, fault \in Faults :
    /\ VisibilityChange(h, fault)
    /\ isObserving /\ Listening
    /\ lastNote = (IF h THEN "hidden" ELSE "visible")
C5_NotificationsIdempotent ==
  [][RepeatedNote => (startTime' = startTime /\ hiddenTime' = hiddenTime)]_vars

\* C6: within a session timeRemaining never increases, and between two
\* updates at most TickMs of Observing time apart it drops by at most 1,
\* whatever pauses and resumes lie in between.
C6_RemainingMonotone ==
  [][isObserving
       => /\ timeRemaining' <= timeRemaining
          /\ (sinceUpdate <= TickMs => timeRemaining' >= timeRemaining - 1)]_vars

\* C7: an abort (reset through the abort button or Escape) of a running
\* session, Paused or not, never runs calculateResults for that session and
\* leaves personality null and scores empty until a later session completes.
C7_AbortLeavesNoResult ==
  /\ aborted # "no" => (personality = "null" /\ scores = EmptyScores)
  /\ aborted = "fresh" => (probe.calc = 0 /\ probe.complete = 0 /\ ~isObserving)
C7_Witness ==
  /\ aborted = "fresh"
  /\ hidden
  /\ stored # NoStored
  /\ personality = "null"

\* C8: when calculateResults throws during completion, the session still
\* leaves Observing and the result is Observer with focus, hesitation,
\* controlBias and energy all 50.
C8_FallbackOnThrow ==
  [][(Completes /\ probe'.threw)
       => /\ ~isObserving'
          /\ personality' = "Observer"
          /\ scores' = FallbackScores
          /\ \E p \in pending' : p.kind = "result"]_vars
C8_Witness ==
  /\ probe.complete = 1
  /\ probe.threw
  /\ ~isObserving
  /\ personality = "Observer"
  /\ scores = FallbackScores

\* C9: a started session that is not aborted completes once the page has
\* been visible for 30 s since its start, whatever came before it: a tick of
\* a running session on a visible page, with the page visible for the whole
\* window and the window elapsed on the session clock, completes the session.
C9_TickCompletesVisibleSession ==
  [][(TickStep /\ isObserving /\ ~isDestroyed /\ ~docHidden
        /\ pageMs >= Duration /\ now - startTime >= Duration)
     => (~isObserving' /\ Completes)]_vars

\* C10: right after a session starts every counter and accumulator of the
\* metrics is 0, firstActivityTime is null, no idle period is open and the
\* last pointer sample is cleared, whatever the session before recorded.
C10_FreshMetricsAtStart ==
  [][(Begin /\ ~isObserving)
       => /\ isObserving'
          /\ metrics' = ZeroMetrics(now, Null)
          /\ lastMouse' = ZeroMouse
          /\ idleStart' = Null]_vars
C10_Witness ==
  /\ probe.dirty
  /\ isObserving
  /\ ~isDestroyed
  /\ startTime = now
  /\ metrics = ZeroMetrics(now, Null)
  /\ lastMouse = ZeroMouse
  /\ idleStart = Null

(***************************************************************************)
(* The classifier on its own: a session whose window has just elapsed,     *)
(* with a Metrics snapshot drawn from the values around every threshold of *)
(* the rule table, completed by the countdown tick.                        *)
(***************************************************************************)
\* The session of a snapshot starts at SnapStart and its tick is due at SnapEnd
SnapStart == 1000
SnapEnd == SnapStart + Duration

\* <<velocitySum, velocityCount>>: no sample, or two samples of mean 0.3, 1.1, 1.5
SnapVelocity == {<<RZero, 0>>, <<Rat(6, 10), 2>>, <<Rat(22, 10), 2>>, <<RInt(3), 2>>}
SnapMaxVelocity == {RZero, RInt(4)}
SnapDistance == {0, 200, 700, 2500}
SnapJitter == {0, 20, 50}
SnapScrolls == {0, 1, 5}
SnapClicks == {0, 1, 6}
\* <<keystrokes, backspaces>>
SnapKeys == {<<0, 0>>, <<2, 0>>, <<7, 1>>, <<7, 4>>, <<60, 0>>}
SnapIdle == {0, 3000, 10001}
SnapTurns == {0, 31}
\* <<firstActivityTime, lastActivityTime>>: spans of 30 s, 5 s and 1 s
SnapTimes == {<<Null, SnapEnd>>, <<Null, SnapStart + 5000>>,
              <<SnapStart + 4000, SnapStart + 5000>>}

\* A session whose window has elapsed and whose countdown tick is due
SessionEnding ==
  /\ now = SnapEnd
  /\ docHidden = FALSE
  /\ isObserving = TRUE
  /\ startTime = SnapStart
  /\ timeRemaining = 1
  /\ hiddenTime = 0
  /\ hidden = FALSE
  /\ personality = "null"
  /\ scores = EmptyScores
  /\ themeApplied = FALSE
  /\ isDestroyed = FALSE
  /\ timers = [countdown |-> SnapEnd, idle |-> SnapEnd]
  /\ pending = {}
  /\ timeouts = {}
  /\ inThrottle = [move |-> FALSE, scroll |-> FALSE, wheel |-> FALSE]
  /\ lastMouse = ZeroMouse
  /\ idleStart = Null
  /\ stored = NoStored
  /\ probe = ZeroProbe
  /\ events = 0
  /\ inputs = 0
  /\ fine = 0
  /\ visibleMs = Duration
  /\ pageMs = Duration
  /\ sinceUpdate = TickMs
  /\ lastNote = "none"
  /\ pauseStart = NoPause
  /\ aborted = "no"
  /\ quiet = NoGap
  /\ twin = NoTwin
  /\ arg = RZero
  /\ ret = NoCall

ClassifyInit ==
  /\ SessionEnding
  /\ \E v \in SnapVelocity, mv \in SnapMaxVelocity, dist \in SnapDistance,
        j \in SnapJitter, sc \in SnapScrolls, cl \in SnapClicks, k \in SnapKeys,
        idle \in SnapIdle, dc \in SnapTurns, ts \in SnapTimes :
       metrics = [mouseDistance |-> dist, velocitySum |-> v[1],
                  velocityCount |-> v[2], maxVelocity |-> mv, jitterCount |-> j,
                  scrollCount |-> sc, clickCount |-> cl, keystrokes |-> k[1],
                  backspaces |-> k[2], idleTime |-> idle,
                  lastActivityTime |-> ts[2], directionChanges |-> dc,
                  maxScrollVelocity |-> 0, firstActivityTime |-> ts[1]]

ClassifyNext == \E fault \in Faults : Tick(fault)

ClassifySpec == ClassifyInit /\ [][ClassifyNext]_vars

\* The session was completed and calculateResults returned normally; the
\* snapshot, the session start and the clock are those it computed from.
Classified == probe.complete = 1 /\ probe.calc = 1 /\ ~probe.threw
rates == Rates(metrics, startTime, now)
archetypeScores == ArchetypeScores(metrics, rates)
\* entries[0][1] of the sorted scores: the highest of the five
MaxScore(sc) ==
  CHOOSE s \in {sc[Archetypes[i]] : i \in 1..Len(Archetypes)} :
    \A i \in 1..Len(Archetypes) : sc[Archetypes[i]] <= s
topScore == MaxScore(archetypeScores)

(***************************************************************************)
(* Properties of the classifier (ClassifySpec unless said otherwise)       *)
(***************************************************************************)
\* C11: after every completed session the personality is one of the five
\* archetypes, focus, hesitation and energy are integers in [5, 95] and
\* controlBias is an integer in [0, 100].
C11_ResultInRange ==
  (probe.complete = 1)
    => /\ \E i \in 1..Len(Archetypes) : personality = Archetypes[i]
       /\ DOMAIN scores = {"focus", "hesitation", "controlBias", "energy"}
       /\ scores.focus \in 5..95
       /\ scores.hesitation \in 5..95
       /\ scores.energy \in 5..95
       /\ scores.controlBias \in 0..100
\* a session whose raw focus is above 95 and whose raw hesitation is below 5
C11_Witness ==
  /\ Classified
  /\ RGt(RAdd(RMul(rates.avgVelocity, RInt(20)), RMul(rates.activityDensity, RInt(10))),
         RInt(95))
  /\ rates.deletionRate = RZero
  /\ rates.avgIdleGap = RZero
  /\ scores.focus = 95
  /\ scores.hesitation = 5

\* The rules as a list: archetype, points, and whether the condition holds
\* for the snapshot m with rates r
RuleTable(m, r) ==
  <<[who |-> "Impulsive", points |-> 20,
     holds |-> RGt(r.avgVelocity, Rat(12, 10)) \/ RGt(r.clickRate, Rat(4, 10))],
    [who |-> "Impulsive", points |-> 15, holds |-> RGt(m.maxVelocity, RInt(3))],
    [who |-> "Impulsive", points |-> 15, holds |-> m.jitterCount > 40],
    [who |-> "Analytical", points |-> 25,
     holds |-> RLt(r.avgVelocity, Rat(5, 10)) /\ RGt(r.avgIdleGap, RInt(2000))],
    [who |-> "Analytical", points |-> 15, holds |-> m.idleTime > 10000],
    [who |-> "Analytical", points |-> 10,
     holds |-> m.keystrokes > 50 /\ RLt(r.deletionRate, Rat(1, 10))],
    [who |-> "Perfectionist", points |-> 25, holds |-> RGt(r.deletionRate, Rat(15, 100))],
    [who |-> "Perfectionist", points |-> 15, holds |-> m.backspaces > 3],
    [who |-> "Perfectionist", points |-> 10,
     holds |-> RLt(r.avgVelocity, Rat(8, 10)) /\ m.jitterCount < 20],
    [who |-> "Observer", points |-> 30,
     holds |-> m.mouseDistance < 600 /\ m.clickCount < 3],
    [who |-> "Observer", points |-> 20,
     holds |-> m.keystrokes < 5 /\ m.scrollCount < 5],
    [who |-> "Restless", points |-> 20, holds |-> RGt(r.activityDensity, Rat(8, 10))],
    [who |-> "Restless", points |-> 15, holds |-> m.directionChanges > 30],
    [who |-> "Restless", points |-> 15, holds |-> RGt(r.scrollRate, Rat(5, 10))]>>

\* The points of the rules of one archetype that hold, from rule i on
RECURSIVE PointsFrom(_, _, _)
PointsFrom(table, who, i) ==
  IF i > Len(table) THEN 0
  ELSE (IF table[i].who = who /\ table[i].holds THEN table[i].points ELSE 0)
       + PointsFrom(table, who, i + 1)

\* C12: the score of each of the five archetypes is the sum of the points of
\* exactly those rules of the rule table whose strict condition holds, each
\* rule being evaluated on its own.
C12_ScoresSumRules ==
  Classified
    => \E table \in {RuleTable(metrics, rates)}, sc \in {archetypeScores} :
         \A i \in 1..Len(Archetypes) :
           sc[Archetypes[i]] = PointsFrom(table, Archetypes[i], 1)
\* all three rules of Restless hold, and the jitter count sits on the
\* threshold of a rule of Perfectionist, which therefore does not score
C12_Witness ==
  /\ Classified
  /\ archetypeScores.Restless = 50
  /\ metrics.jitterCount = 20
  /\ RLt(rates.avgVelocity, Rat(8, 10))
  /\ archetypeScores.Perfectionist = 0

\* C13: whenever the top score is above 0, the personality chosen is an
\* archetype whose score equals the highest of the five scores, also when
\* the tie-breaker decides.
C13_DominantHasTopScore ==
  \E sc \in {archetypeScores} :
    (Classified /\ MaxScore(sc) > 0) => (sc[personality] = MaxScore(sc))
\* Impulsive and Analytical share the top score and the tie-breaker has
\* replaced the first-ranked Impulsive by Analytical
C13_Witness ==
  /\ Classified
  /\ topScore > 0
  /\ archetypeScores.Impulsive = topScore
  /\ archetypeScores.Analytical = topScore
  /\ personality = "Analytical"

\* C14: whenever Impulsive and Analytical tie for the top score and
\* avgVelocity > 1, the tie-breaker resolves to Impulsive.
C14_TieResolvesToImpulsive ==
  (/\ Classified
   /\ topScore > 0
   /\ archetypeScores.Impulsive = topScore
   /\ archetypeScores.Analytical = topScore
   /\ RGt(rates.avgVelocity, RInt(1)))
    => (personality = "Impulsive")

\* C15: when all five scores are 0 the personality is Restless if
\* mouseDistance > 2000, else Perfectionist if backspaces > 0, else
\* Impulsive if clickCount > 5, else Observer.
C15_ZeroScoreFallback ==
  (Classified /\ topScore = 0)
    => personality = (IF metrics.mouseDistance > 2000 THEN "Restless"
                      ELSE IF metrics.backspaces > 0 THEN "Perfectionist"
                      ELSE IF metrics.clickCount > 5 THEN "Impulsive"
                      ELSE "Observer")
\* no rule holds, the pointer travelled little, and both a backspace and
\* more than five clicks were recorded: the second link of the chain decides
C15_Witness ==
  /\ Classified
  /\ \A i \in 1..Len(Archetypes) : archetypeScores[Archetypes[i]] = 0
  /\ metrics.mouseDistance <= 2000
  /\ metrics.backspaces > 0
  /\ metrics.clickCount > 5
  /\ personality = "Perfectionist"

\* C16: for the snapshot in which every metric is 0 except
\* mouseDistance = 2500 all five scores are 0, the zero-score branch is
\* taken and the personality is Restless.
C16_DistanceOnlyIsRestless ==
  (/\ Classified
   /\ \E t \in {metrics.lastActivityTime} :
        metrics = [ZeroMetrics(t, Null) EXCEPT !.mouseDistance = 2500])
    => (topScore = 0 /\ personality = "Restless")

\* C17: when avgVelocity > 1.2 or clickRate > 0.4, maxVelocity > 3,
\* jitterCount > 40 and every other metric is 0, the Impulsive score is at
\* least 50 and the personality is Impulsive, for every duration in [1, 30].
C17_FastJitteryIsImpulsive ==
  (/\ Classified
   /\ RGt(rates.avgVelocity, Rat(12, 10)) \/ RGt(rates.clickRate, Rat(4, 10))
   /\ RGt(metrics.maxVelocity, RInt(3))
   /\ metrics.jitterCount > 40
   /\ metrics.mouseDistance = 0
   /\ metrics.scrollCount = 0
   /\ metrics.keystrokes = 0
   /\ metrics.backspaces = 0
   /\ metrics.idleTime = 0
   /\ metrics.directionChanges = 0)
    => (archetypeScores.Impulsive >= 50 /\ personality = "Impulsive")
\* such a session in which Observer scores 50 as well
C17_Witness ==
  /\ Classified
  /\ RGt(rates.avgVelocity, Rat(12, 10))
  /\ RGt(metrics.maxVelocity, RInt(3))
  /\ metrics.jitterCount > 40
  /\ metrics.mouseDistance = 0
  /\ metrics.scrollCount = 0
  /\ metrics.keystrokes = 0
  /\ metrics.idleTime = 0
  /\ metrics.directionChanges = 0
  /\ archetypeScores.Impulsive = 50
  /\ archetypeScores.Observer = 50
  /\ personality = "Impulsive"

\* C18: when mouseDistance < 600, clickCount < 3, keystrokes < 5,
\* scrollCount < 5 and all pointer, idle and backspace metrics are 0, the
\* Observer score is exactly 50 and the personality is Observer, for every
\* duration in [1, 30].
C18_QuietIsObserver ==
  (/\ Classified
   /\ metrics.mouseDistance < 600
   /\ metrics.clickCount < 3
   /\ metrics.keystrokes < 5
   /\ metrics.scrollCount < 5
   /\ metrics.velocitySum = RZero
   /\ metrics.velocityCount = 0
   /\ metrics.maxVelocity = RZero
   /\ metrics.jitterCount = 0
   /\ metrics.directionChanges = 0
   /\ metrics.idleTime = 0
   /\ metrics.backspaces = 0)
    => (archetypeScores.Observer = 50 /\ personality = "Observer")
\* such a session of one second with a click, a scroll and two keystrokes,
\* where Restless and Impulsive score as well
C18_Witness ==
  /\ Classified
  /\ metrics.mouseDistance = 200
  /\ metrics.clickCount = 1
  /\ metrics.keystrokes = 2
  /\ metrics.scrollCount = 1
  /\ metrics.velocityCount = 0
  /\ metrics.maxVelocity = RZero
  /\ metrics.jitterCount = 0
  /\ metrics.directionChanges = 0
  /\ metrics.idleTime = 0
  /\ metrics.backspaces = 0
  /\ archetypeScores.Restless = 35
  /\ archetypeScores.Impulsive = 20
  /\ archetypeScores.Observer = 50
  /\ personality = "Observer"

\* C19: avgVelocity is 0 when velocityCount is 0, deletionRate is 0 when
\* keystrokes is 0 and avgIdleGap is 0 when clickCount is 0; no division by
\* zero occurs: the duration that divides is at least 1, every rate is a
\* finite number, and controlBias is 50 when clickRate + scrollRate is 0.
C19_GuardedRates ==
  Classified
    => \E r \in {rates} :
         /\ (metrics.velocityCount = 0) => (r.avgVelocity = RZero)
         /\ (metrics.keystrokes = 0) => (r.deletionRate = RZero)
         /\ (metrics.clickCount = 0) => (r.avgIdleGap = RZero)
         /\ ~RLt(durationSec(metrics, startTime, now), RInt(1))
         /\ \A f \in DOMAIN r : r[f].d > 0
         /\ (metrics.clickCount + metrics.scrollCount = 0) => (scores.controlBias = 50)
\* no pointer sample, no keystroke and no click, but idle time on record
C19_Witness ==
  /\ Classified
  /\ metrics.velocityCount = 0
  /\ metrics.keystrokes = 0
  /\ metrics.clickCount = 0
  /\ metrics.idleTime > 0
  /\ rates.avgVelocity = RZero
  /\ rates.deletionRate = RZero
  /\ rates.avgIdleGap = RZero
  /\ scores.hesitation = 5

\* C20 (under Spec): the duration calculateResults divides by is
\* (lastActivityTime - firstActivityTime) / 1000 clamped to [1, 30], and it
\* is the full 30 s whenever firstActivityTime is null, also in sessions
\* with clicks, scrolls or pauses but no pointer sample.
C20_NullFirstIsFullWindow ==
  [][(Completes /\ ~probe'.threw /\ metrics'.firstActivityTime = Null)
       => (durationSec(metrics', startTime', now') = RInt(30))]_vars

(***************************************************************************)
(* normalizeScore on its own: the method is called with an argument drawn  *)
(* from the halves between -2 and 100 and the three non-finite values,     *)
(* directly and behind safeNum as calculateResults calls it.               *)
(***************************************************************************)
MaxArg == 100
NormalizeArgs == {Rat(k, 2) : k \in -4..(2 * MaxArg)} \cup {RNaN, RInf, RNegInf}

NormalizeInit ==
  /\ Constructed
  /\ arg \in NormalizeArgs
  /\ ret = NoCall

\* this.normalizeScore(arg)
NormalizeCall ==
  /\ ret.raw = Null
  /\ ret' = [ret EXCEPT !.raw = normalizeScore(arg)]
  /\ UNCHANGED <<now, docHidden, progVars, obsVars, arg>>

\* this.normalizeScore(safeNum(arg)), as for focus, hesitation and energy
SafeNormalizeCall ==
  /\ ret.safe = Null
  /\ ret' = [ret EXCEPT !.safe = normalizeScore(safeNum(arg))]
  /\ UNCHANGED <<now, docHidden, progVars, obsVars, arg>>

NormalizeNext == NormalizeCall \/ SafeNormalizeCall

NormalizeSpec == NormalizeInit /\ [][NormalizeNext]_vars

\* C21 as stated (under NormalizeSpec): normalizeScore returns an integer in
\* [5, 95] for every input, finite or not (NaN, +Infinity, -Infinity).
C21_NormalizeAnyInput == (ret.raw # Null) => (ret.raw \in 5..95)

\* C21 amended (under NormalizeSpec): normalizeScore returns an integer in
\* [5, 95] for every finite input and for +Infinity and -Infinity, and NaN
\* for NaN; behind safeNum, which replaces every non-finite value by 0, it
\* returns an integer in [5, 95] for every input.
C21_NormalizeBehindSafeNum ==
  /\ (ret.raw # Null /\ arg # RNaN) => (ret.raw \in 5..95)
  /\ (ret.raw # Null /\ arg = RNaN) => (ret.raw = NaN)
  /\ (ret.safe # Null) => (ret.safe \in 5..95)
\* NaN went through both calls
C21_Witness == arg = RNaN /\ ret.raw = NaN /\ ret.safe = 5

(***************************************************************************)
(* The control bias of sessions that differ in clicks, scrolls and length  *)
(***************************************************************************)
MaxCount == 8
\* The time from start to the last activity, in ms
ControlSpans == {1000, 1001, 1003, 1026, 5000, Duration}

ControlInit ==
  /\ SessionEnding
  /\ \E cl \in 0..MaxCount, sc \in 0..MaxCount, span \in ControlSpans :
       metrics = [ZeroMetrics(SnapStart + span, Null) EXCEPT
                    !.clickCount = cl, !.scrollCount = sc]

ControlSpec == ControlInit /\ [][ClassifyNext]_vars

\* round(100 * clickCount / (clickCount + scrollCount)), of the exact quotient
ClickShare == Rat(100 * metrics.clickCount, metrics.clickCount + metrics.scrollCount)

\* C22 as stated (under ControlSpec): controlBias is 50 without clicks and
\* scrolls and round(100 * clickCount / (clickCount + scrollCount)) otherwise,
\* whatever the duration that the rates were computed with.
C22_ControlBiasFromCounts ==
  Classified =>
    scores.controlBias = IF metrics.clickCount + metrics.scrollCount = 0 THEN 50
                         ELSE RRound(ClickShare)

\* C22 amended (under ControlSpec): controlBias is within [0, 100]; it is 50
\* without clicks and scrolls; otherwise it is
\* round(100 * clickCount / (clickCount + scrollCount)) unless that quotient
\* lies exactly halfway between two integers, where it is one of the two,
\* depending on the duration.
C22_ControlBiasUpToTies ==
  Classified =>
    /\ scores.controlBias \in 0..100
    /\ (metrics.clickCount + metrics.scrollCount = 0) => scores.controlBias = 50
    /\ (metrics.clickCount + metrics.scrollCount > 0 /\ ClickShare.d # 2)
         => scores.controlBias = RRound(ClickShare)
    /\ (metrics.clickCount + metrics.scrollCount > 0 /\ ClickShare.d = 2)
         => scores.controlBias \in {RRound(ClickShare) - 1, RRound(ClickShare)}
\* three clicks and five scrolls in 1.001 s: 37.5 came out as 37
C22_Witness ==
  /\ Classified
  /\ metrics.clickCount = 3 /\ metrics.scrollCount = 5
  /\ metrics.lastActivityTime = SnapStart + 1001
  /\ scores.controlBias = 37

(***************************************************************************)
(* The idle detector on a clock finer than its poll                        *)
(***************************************************************************)
StepMs == IdleMs \div 2
IdleEnd == 1500
MaxActs == 4

\* A click on the page, off the sound toggle
Activity ==
  /\ metrics.clickCount < MaxActs
  /\ Deliver(handleClick(App, FALSE, now))
  /\ UNCHANGED <<events, inputs, aborted>>

IdleNext ==
  \/ ~isObserving /\ Begin
  \/ Tick("none")
  \/ IdlePoll
  \/ Activity
  \/ now + StepMs <= IdleEnd /\ Advance(StepMs)

IdleSpec == Init /\ [][IdleNext]_vars

\* The idle poll closes an idle period
ClosesIdle == IdlePoll /\ Truthy(idleStart) /\ ~Truthy(idleStart')

\* C23 (under IdleSpec): as long as the longest time without activity in a
\* session is 450 ms, nothing has been added to idleTime, whatever the time
\* of the polls relative to the activity.
C23_ShortGapAddsNothing ==
  (isObserving /\ quiet.longest = 450) => metrics.idleTime = 0

\* C24 (under IdleSpec): the poll that closes an idle period opened within a
\* gap of 600 ms, after the activity that ended the gap, adds about 600 ms
\* to idleTime: 600 give or take one poll period.
C24_LongGapAddsItsLength ==
  [][(/\ ClosesIdle
      /\ quiet.last = 600
      /\ idleStart > metrics.lastActivityTime - 600
      /\ idleStart <= metrics.lastActivityTime)
     => (metrics'.idleTime - metrics.idleTime) \in (600 - IdleMs)..(600 + IdleMs)]_vars

(***************************************************************************)
(* The recorders, one event at a time                                      *)
(***************************************************************************)
Recording == isObserving /\ ~hidden /\ ~isDestroyed

\* C25 (under Spec): while the session is Observing and visible, a keydown
\* outside IME composition adds 1 to backspaces for Backspace and 1 to
\* keystrokes for a single printable character without modifier, and stamps
\* lastActivityTime (Escape, which ends the session, is left aside).
C25_KeyDownCounts ==
  [][\A key \in Keys \ {"Escape"} :
       (Recording /\ KeyDown(key)) =>
         /\ metrics'.backspaces = metrics.backspaces + (IF key = "Backspace" THEN 1 ELSE 0)
         /\ metrics'.keystrokes = metrics.keystrokes + (IF key = "a" THEN 1 ELSE 0)
         /\ metrics'.lastActivityTime = now]_vars

(***************************************************************************)
(* A session that receives several inputs in quick succession              *)
(***************************************************************************)
MaxSamples == 2
RecordEnd == 130
\* Clock advances: half of the pointer throttle, and the wheel throttle
RecordSteps == {MoveThrottle \div 2, WheelThrottle}

\* An input event of a running session with a budget of MaxSamples
Sample(result) ==
  /\ isObserving
  /\ inputs < MaxSamples
  /\ inputs' = inputs + 1
  /\ Deliver(result)
  /\ UNCHANGED <<events, aborted>>

PointerSample(x, y) == Sample(IF Listening THEN throttledMouseMove(App, x, y, now) ELSE App)
WheelSample(deltaY) == Sample(IF Listening THEN throttledWheel(App, deltaY, now) ELSE App)
ScrollSample == Sample(IF Listening THEN throttledScroll(App, now) ELSE App)
ClickSample(onToggle) == Sample(handleClick(App, onToggle, now))

RecordNext ==
  \/ ~isObserving /\ Begin
  \/ Tick("none")
  \/ IdlePoll
  \/ TimeoutFire
  \/ \E pt \in Points : PointerSample(pt[1], pt[2])
  \/ \E deltaY \in DeltaYs : WheelSample(deltaY)
  \/ ScrollSample
  \/ \E onToggle \in BOOLEAN : ClickSample(onToggle)
  \/ \E d \in RecordSteps : isObserving /\ now + d <= RecordEnd /\ Advance(d)

RecordSpec == Init /\ [][RecordNext]_vars

\* The scroll and wheel steps that pass their throttle
AcceptedScroll == Recording /\ ~inThrottle.scroll /\ ScrollSample
AcceptedWheel(deltaY) == Recording /\ ~inThrottle.wheel /\ WheelSample(deltaY)

\* C26 as stated (under RecordSpec): while Observing and visible, an accepted
\* scroll adds exactly 1 to scrollCount, an accepted wheel with a finite
\* deltaY sets maxScrollVelocity to max(current, |deltaY|), and both stamp
\* lastActivityTime.
C26_ScrollAndWheelStamp ==
  [][/\ AcceptedScroll =>
          /\ metrics'.scrollCount = metrics.scrollCount + 1
          /\ metrics'.lastActivityTime = now
     /\ \A deltaY \in DeltaYs :
          AcceptedWheel(deltaY) =>
            /\ deltaY.d # 0 =>
                 metrics'.maxScrollVelocity = Max(metrics.maxScrollVelocity, Abs(deltaY.n))
            /\ metrics'.lastActivityTime = now]_vars

\* C26 amended (under RecordSpec): while Observing and visible, an accepted
\* scroll adds exactly 1 to scrollCount and stamps lastActivityTime; an
\* accepted wheel sets maxScrollVelocity to max(current, |deltaY|) when
\* |deltaY| is finite, leaves it alone when it is not, and does not stamp
\* lastActivityTime.
C26_ScrollStampsWheelDoesNot ==
  [][/\ AcceptedScroll =>
          /\ metrics'.scrollCount = metrics.scrollCount + 1
          /\ metrics'.lastActivityTime = now
     /\ \A deltaY \in DeltaYs :
          AcceptedWheel(deltaY) =>
            /\ metrics'.maxScrollVelocity =
                 IF deltaY.d # 0 THEN Max(metrics.maxScrollVelocity, Abs(deltaY.n))
                 ELSE metrics.maxScrollVelocity
            /\ metrics'.lastActivityTime = metrics.lastActivityTime]_vars
\* half a throttle period or more into the session a wheel was accepted;
\* the highest velocity is 120 and the activity stamp is that of the start
C26_Witness ==
  /\ Recording
  /\ inputs = 2
  /\ metrics = [ZeroMetrics(0, Null) EXCEPT !.maxScrollVelocity = 120]
  /\ \E p \in pending : p.kind = "wheel" /\ p.due >= 2 * WheelThrottle

\* C27 (under RecordSpec): a click on the sound toggle leaves clickCount and
\* lastActivityTime unchanged; every other click while Observing and visible
\* adds exactly 1 to clickCount and stamps lastActivityTime.
C27_ClickCounts ==
  [][/\ ClickSample(TRUE) =>
          /\ metrics'.clickCount = metrics.clickCount
          /\ metrics'.lastActivityTime = metrics.lastActivityTime
     /\ (Recording /\ ClickSample(FALSE)) =>
          /\ metrics'.clickCount = metrics.clickCount + 1
          /\ metrics'.lastActivityTime = now]_vars
\* two clicks within the first pointer throttle period, of which one was
\* counted: no other input can have come and gone by then
C27_Witness ==
  /\ Recording
  /\ inputs = 2
  /\ now = MoveThrottle \div 2
  /\ metrics = [ZeroMetrics(now, Null) EXCEPT !.clickCount = 1]
  /\ pending = {}

\* The pointer step that passes its throttle
AcceptedPointer(x, y) == Recording /\ ~inThrottle.move /\ PointerSample(x, y)

\* C30 (under RecordSpec): a pointer sample that arrives 16 ms or less after
\* the previous one, or at no distance from it, or as the first of the
\* session, leaves mouseDistance, velocitySum, velocityCount, maxVelocity,
\* jitterCount and directionChanges unchanged, stamps lastActivityTime and
\* replaces the stored last position and time.
C30_UnprocessedSample ==
  [][\A pt \in Points :
       (/\ AcceptedPointer(pt[1], pt[2])
        /\ \/ metrics.firstActivityTime = Null
           \/ now - lastMouse.time <= 16
           \/ pt = <<lastMouse.x, lastMouse.y>>)
       => /\ metrics'.mouseDistance = metrics.mouseDistance
          /\ metrics'.velocitySum = metrics.velocitySum
          /\ metrics'.velocityCount = metrics.velocityCount
          /\ metrics'.maxVelocity = metrics.maxVelocity
          /\ metrics'.jitterCount = metrics.jitterCount
          /\ metrics'.directionChanges = metrics.directionChanges
          /\ metrics'.lastActivityTime = now
          /\ lastMouse'.x = pt[1] /\ lastMouse'.y = pt[2] /\ lastMouse'.time = now]_vars
\* the second sample came 16 ms after the first, 4 px away, and was not
\* processed
C30_Witness ==
  /\ Recording
  /\ inputs = 2
  /\ metrics.firstActivityTime = MoveThrottle \div 2
  /\ lastMouse.time = metrics.firstActivityTime + 16
  /\ metrics.lastActivityTime = lastMouse.time
  /\ lastMouse.x = 3 /\ lastMouse.y = 4
  /\ metrics.velocityCount = 0 /\ metrics.mouseDistance = 0

(***************************************************************************)
(* The registry of tracked timeouts                                        *)
(***************************************************************************)
\* C28 (under Spec): reset() and destroy() cancel every tracked timeout, so
\* that no callback scheduled before them is left to run after them.
C28_ResetCancelsTimeouts ==
  [][(Reset \/ Destroy) => pending' = {}]_vars

\* C29 (under Spec): the registry holds only handles of timeouts that are
\* still pending: a handle leaves it when its timeout fires or is cancelled.
C29_RegistryHoldsPending == timeouts \subseteq pending

(***************************************************************************)
(* A pointer path: a session that receives up to MaxPath pointer samples   *)
(* on the points of a cross, 8 ms or more apart                            *)
(***************************************************************************)
MaxPath == 3
PathEnd == 120
\* The centre of a cross and the ends of its arms: every distance between
\* two of them is an integer, from 3 to 8
PathPoints == {<<3, 4>>, <<0, 4>>, <<6, 4>>, <<3, 0>>, <<3, 8>>}

PathSample(x, y) ==
  /\ isObserving
  /\ inputs < MaxPath
  /\ inputs' = inputs + 1
  /\ Deliver(IF Listening THEN throttledMouseMove(App, x, y, now) ELSE App)
  /\ UNCHANGED <<events, aborted>>

PathNext ==
  \/ ~isObserving /\ Begin
  \/ Tick("none")
  \/ IdlePoll
  \/ TimeoutFire
  \/ \E pt \in PathPoints : PathSample(pt[1], pt[2])
  \/ \E d \in RecordSteps : isObserving /\ now + d <= PathEnd /\ Advance(d)

PathSpec == Init /\ [][PathNext]_vars

\* The pointer step that passes its throttle and is processed
ProcessedPath(x, y) ==
  /\ Recording /\ ~inThrottle.move /\ PathSample(x, y)
  /\ Truthy(lastMouse.time)
  /\ now - lastMouse.time > 16
  /\ <<x, y>> # <<lastMouse.x, lastMouse.y>>

\* C31 (under PathSpec): a processed pointer sample (one more than 16 ms
\* after the sample before it and at a distance from it) adds the distance
\* to mouseDistance, the speed, which is the distance over the time, to
\* velocitySum and 1 to velocityCount; maxVelocity becomes the greater of
\* itself and the speed; jitterCount grows by 1 exactly when the distance is
\* below 5 and the time below 50; directionChanges grows by 1 exactly when
\* the velocity stored before is not zero, its dot product with the new one
\* is negative and the speed is above 0.3.
C31_ProcessedSample ==
  [][\A pt \in PathPoints :
       ProcessedPath(pt[1], pt[2]) =>
         LET dt == now - lastMouse.time
             dx == pt[1] - lastMouse.x
             dy == pt[2] - lastMouse.y
             distance == ISqrt(dx * dx + dy * dy)
             speed == Rat(distance, dt)
             \* the sign of the dot product of <<dx / dt, dy / dt>> with
             \* the stored velocity
             dot == dx * lastMouse.vx.n * lastMouse.vy.d
                      + dy * lastMouse.vy.n * lastMouse.vx.d
             turn == /\ lastMouse.vx # RZero \/ lastMouse.vy # RZero
                     /\ dot < 0
                     /\ 10 * distance > 3 * dt
         IN  /\ metrics'.mouseDistance = metrics.mouseDistance + distance
             /\ metrics'.velocitySum = RAdd(metrics.velocitySum, speed)
             /\ metrics'.velocityCount = metrics.velocityCount + 1
             /\ metrics'.maxVelocity = RMax(metrics.maxVelocity, speed)
             /\ metrics'.jitterCount =
                  metrics.jitterCount + (IF distance < 5 /\ dt < 50 THEN 1 ELSE 0)
             /\ metrics'.directionChanges =
                  metrics.directionChanges + (IF turn THEN 1 ELSE 0)]_vars
\* three samples 24 ms apart: up an arm by 4 (a jitter), then down to the
\* end of the opposite arm by 8, at a speed of 1/3 (a direction change)
C31_Witness ==
  /\ Recording
  /\ inputs = 3
  /\ metrics.velocityCount = 2
  /\ metrics.mouseDistance = 12
  /\ metrics.velocitySum = Rat(1, 2)
  /\ metrics.maxVelocity = Rat(1, 3)
  /\ metrics.jitterCount = 1
  /\ metrics.directionChanges = 1

(***************************************************************************)
(* The idle detector across pauses: a session with clicks and visibility   *)
(* notifications on the clock of IdleSpec                                  *)
(***************************************************************************)
PauseEnd == 1300
MaxClicks == 1
\* visibility notifications per session
MaxNotes == 2

PauseNext ==
  \/ ~isObserving /\ Begin
  \/ Tick("none")
  \/ IdlePoll
  \/ metrics.clickCount < MaxClicks /\ Activity
  \/ \E h \in BOOLEAN :
       isObserving /\ events <= MaxNotes /\ VisibilityChange(h, "none")
  \/ isObserving /\ now + StepMs <= PauseEnd /\ Advance(StepMs)

PauseSpec == Init /\ [][PauseNext]_vars

\* The idle poll opens an idle period
OpensIdle == IdlePoll /\ ~Truthy(idleStart) /\ Truthy(idleStart')

\* C32 (under PauseSpec): within a session idleTime changes only at an idle
\* poll that closes an open idle period, less than 100 ms after the last
\* activity; what is added is the time of the poll minus idleStart and more
\* than 500; an idle period is opened only by a poll at which none is open
\* and which comes more than 400 ms after the last activity.
C32_IdleTimeOnlyAtClosingPoll ==
  [][/\ (isObserving /\ metrics'.idleTime # metrics.idleTime)
          => /\ ClosesIdle
             /\ now - metrics.lastActivityTime < 100
             /\ metrics'.idleTime - metrics.idleTime = now - idleStart
             /\ now - idleStart > 500
     /\ (isObserving /\ ~Truthy(idleStart) /\ Truthy(idleStart'))
          => /\ OpensIdle
             /\ now - metrics.lastActivityTime > 400
             /\ idleStart' = now]_vars
\* an idle period of 600 ms has been added after a click, in a session that
\* was never paused
C32_Witness ==
  /\ isObserving
  /\ metrics.idleTime = 600
  /\ metrics.clickCount = 1
  /\ ~Truthy(idleStart)
  /\ lastNote = "none"

(***************************************************************************)
(* The session while Paused                                                *)
(***************************************************************************)
\* C33 (under Spec): while the session is Paused, a countdown tick or an
\* idle poll that still fires leaves timeRemaining, idleTime and idleStart
\* unchanged and completes nothing, and no session completes in a step that
\* ends with the session hidden.
C33_PausedTimersIdle ==
  [][/\ (Paused /\ (TickStep \/ IdlePoll))
          => /\ UNCHANGED <<timeRemaining, idleStart>>
             /\ metrics'.idleTime = metrics.idleTime
             /\ ~Completes
     /\ Completes => ~hidden']_vars
\* a Paused session whose countdown interval is live has been ticked half a
\* window after its start, and still shows the full time
C33_Witness ==
  /\ Paused
  /\ ~isDestroyed
  /\ timers.countdown = now + TickMs
  /\ now - startTime >= Duration \div 2
  /\ timeRemaining = InitialRemaining

(***************************************************************************)
(* Starting a session                                                      *)
(***************************************************************************)
\* C34 (under Spec): beginObservation called while a session is Observing
\* or Paused changes nothing: startTime, timeRemaining, the metrics, the
\* interval handles and every other field of the object stay as they were.
C34_BeginWhileRunningIsNoop ==
  [][(Begin /\ isObserving) => UNCHANGED progVars]_vars
\* beginObservation has been called again half a window into a session,
\* which still has its start time and its countdown
C34_Witness ==
  /\ isObserving
  /\ probe.again
  /\ startTime = 0
  /\ now >= Duration \div 2
  /\ timers.countdown = now + TickMs
  /\ timeRemaining = InitialRemaining \div 2

\* C35 (under Spec): right after a session is started the hidden flag is
\* false, whatever happened before: the session is Observing, not Paused.
C35_StartsVisible ==
  [][(Begin /\ ~isObserving) => ~hidden']_vars

(***************************************************************************)
(* The intervals of a session that has ended                               *)
(***************************************************************************)
\* C36 (under Spec): whenever the session is not Observing, neither the
\* countdown interval nor the idle-poll interval is scheduled.
C36_NoIntervalsOutsideSession ==
  ~isObserving => (timers.countdown = Null /\ timers.idle = Null)

(***************************************************************************)
(* The delayed result step                                                 *)
(***************************************************************************)
\* C37 (under Spec): the result step that runs 2500 ms after a completion
\* finds the result of that session in place: what it persists is never a
\* null personality nor empty scores, whatever reset() and
\* beginObservation() did while the timeout was pending.
C37_ResultStepFindsResult ==
  stored # NoStored => (stored.personality # "null" /\ stored.scores # EmptyScores)

(***************************************************************************)
(* Idle time and hidden time                                               *)
(***************************************************************************)
\* C38 (under PauseSpec): idleTime is at most the time the session has
\* spent Observing and visible: time during which the page was hidden is
\* never added to it, even when an idle period was open at the pause.
C38_IdleWithinVisibleTime ==
  isObserving => metrics.idleTime <= visibleMs

(***************************************************************************)
(* The countdown                                                           *)
(***************************************************************************)
\* C40 (under Spec): timeRemaining is a whole number from 0 to 30 in every
\* reachable state, whatever the starts, aborts, ticks and visibility
\* notifications.
C40_RemainingInRange ==
  timeRemaining \in 0..InitialRemaining

(***************************************************************************)
(* The session and its twin without hidden time                            *)
(***************************************************************************)
\* The twin session receives every event the session receives, at the same
\* offset of visible observing time, and its hidden intervals have length 0:
\* its clock stands still while the session is Paused and runs lag ms
\* behind the session's clock afterwards.
TwinLag == IF twin.lag = Null THEN 0 ELSE twin.lag
TwinNow == IF hidden THEN hiddenTime - TwinLag ELSE now - TwinLag
TwinApp ==
  IF twin = NoTwin THEN App
  ELSE [App EXCEPT !.startTime = twin.startTime, !.hiddenTime = twin.hiddenTime,
                   !.metrics = twin.metrics, !.idleStart = twin.idleStart]
Project(b, lag) ==
  [startTime |-> b.startTime, hiddenTime |-> b.hiddenTime, metrics |-> b.metrics,
   idleStart |-> b.idleStart, lag |-> lag]

\* a handler leaves the session as a and the twin as b
TwinRun(a, b, lag) ==
  /\ Handler(a)
  /\ SessionObs(a, [SameObs EXCEPT !.twin = Project(b, lag)])
  /\ aborted' = AbortedAfter(a)

\* The countdown interval fires in both
TwinTick ==
  /\ timers.countdown # Null
  /\ now >= timers.countdown
  /\ \E a1 \in {update(App, now, "none")}, b \in {update(TwinApp, TwinNow, "none")} :
       TwinRun(IF a1.timers.countdown # Null
               THEN [a1 EXCEPT !.timers.countdown = now + TickMs] ELSE a1,
               b, TwinLag)
  /\ UNCHANGED <<docHidden, events, inputs>>

\* The idle interval fires in both
TwinPoll ==
  /\ timers.idle # Null
  /\ now >= timers.idle
  /\ \E a1 \in {checkIdle(App, now)}, b \in {checkIdle(TwinApp, TwinNow)} :
       TwinRun([a1 EXCEPT !.timers.idle = now + IdleMs], b, TwinLag)
  /\ UNCHANGED <<docHidden, events, inputs>>

\* A click on the visible page, off the sound toggle, in both
TwinClick ==
  /\ isObserving /\ ~hidden
  /\ inputs < MaxInputs
  /\ inputs' = inputs + 1
  /\ \E a \in {handleClick(App, FALSE, now)}, b \in {handleClick(TwinApp, FALSE, TwinNow)} :
       TwinRun(a, b, TwinLag)
  /\ UNCHANGED <<docHidden, events>>

\* The page is hidden, or shown again: the twin is shown at the instant it
\* was hidden
TwinNotify(h) ==
  /\ isObserving
  /\ h # docHidden
  /\ Event
  /\ docHidden' = h
  /\ \E a \in {handleVisibilityChange(App, now, h, "none")},
        b \in {handleVisibilityChange(TwinApp, TwinNow, h, "none")} :
       TwinRun(a, b, IF h THEN TwinLag ELSE TwinLag + (now - hiddenTime))
  /\ UNCHANGED inputs

\* the length of a hidden interval
PauseMs == 1000
TwinSteps == {TickMs, PauseMs, Duration \div 2}

\* The session begins once the clock, which is Date.now(), is above 0; the
\* clock advances by PauseMs while the session is Paused
TwinNext ==
  \/ ~isObserving /\ now = 0 /\ Advance(PauseMs)
  \/ ~isObserving /\ now > 0 /\ probe.complete = 0 /\ Begin
  \/ TwinTick
  \/ TwinPoll
  \/ TwinClick
  \/ \E h \in BOOLEAN : events <= MaxNotes /\ TwinNotify(h)
  \/ \E d \in TwinSteps : isObserving /\ (hidden <=> d = PauseMs) /\ Advance(d)

TwinSpec == Init /\ [][TwinNext]_vars

\* what the handler of a completing step computes for the twin
TwinDone ==
  IF hidden THEN handleVisibilityChange(TwinApp, TwinNow, FALSE, "none")
  ELSE update(TwinApp, TwinNow, "none")

\* C39 (under TwinSpec): the Result does not depend on how long the page was
\* hidden: when a session completes, its personality and its four
\* sub-scores are those of the twin session, which received the same input
\* events at the same offsets of visible observing time and whose hidden
\* intervals had length 0.
C39_ResultIgnoresHiddenTime ==
  [][Completes => \E b \in {TwinDone} :
                    /\ personality' = b.personality
                    /\ scores' = b.scores]_vars
====
